---- MODULE Spec2Model ----
(***************************************************************************)
(* Model of the tool-validator extension                                   *)
(* (src/extensions/tool-validator/index.ts).                               *)
(*                                                                         *)
(* Strings are sequences of fragments: data strings are written one        *)
(* character per element, literals of the program text are kept as one     *)
(* fragment ("Validation failed: ").  Concatenation is \o.                 *)
(* JSON values are records with the same fields whatever their type, so    *)
(* that any two values can be compared.                                    *)
(***************************************************************************)
EXTENDS Integers, Sequences, FiniteSets, TLC

(***************************************************************************)
(* Bounds                                                                  *)
(***************************************************************************)
\* number of before_tool_call events the host issues in one run
MaxCalls == 2

(***************************************************************************)
(* JSON values                                                             *)
(***************************************************************************)
Undefined == [t |-> "undefined", s |-> <<>>, n |-> 0, b |-> FALSE, a |-> <<>>, o |-> <<>>]
Null      == [t |-> "null",      s |-> <<>>, n |-> 0, b |-> FALSE, a |-> <<>>, o |-> <<>>]
Str(x)    == [t |-> "string",    s |-> x,    n |-> 0, b |-> FALSE, a |-> <<>>, o |-> <<>>]
Num(x)    == [t |-> "number",    s |-> <<>>, n |-> x, b |-> FALSE, a |-> <<>>, o |-> <<>>]
Bool(x)   == [t |-> "boolean",   s |-> <<>>, n |-> 0, b |-> x,     a |-> <<>>, o |-> <<>>]
Arr(x)    == [t |-> "array",     s |-> <<>>, n |-> 0, b |-> FALSE, a |-> x,    o |-> <<>>]
\* an object is the sequence of its own properties, in insertion order
Obj(x)    == [t |-> "object",    s |-> <<>>, n |-> 0, b |-> FALSE, a |-> <<>>, o |-> x]
Prop(k, v) == [k |-> k, v |-> v]

HasKey(obj, k) == \E i \in 1..Len(obj.o) : obj.o[i].k = k

\* obj[k]: the property's value, undefined when the object has no such property
Get(obj, k) ==
  IF HasKey(obj, k)
  THEN obj.o[CHOOSE i \in 1..Len(obj.o) : obj.o[i].k = k].v
  ELSE Undefined

\* obj[k] = v: overwrite in place, or append a new property
Put(obj, k, v) ==
  IF HasKey(obj, k)
  THEN Obj([i \in 1..Len(obj.o) |-> IF obj.o[i].k = k THEN Prop(k, v) ELSE obj.o[i]])
  ELSE Obj(Append(obj.o, Prop(k, v)))

(***************************************************************************)
(* Characters                                                              *)
(***************************************************************************)
Whitespace == {" ", "\t", "\n"}

UpperCase == <<"A", "B", "C", "D", "E", "F", "G", "H", "I", "J", "K", "L", "M",
               "N", "O", "P", "Q", "R", "S", "T", "U", "V", "W", "X", "Y", "Z">>
LowerCase == <<"a", "b", "c", "d", "e", "f", "g", "h", "i", "j", "k", "l", "m",
               "n", "o", "p", "q", "r", "s", "t", "u", "v", "w", "x", "y", "z">>

ToLowerChar(c) ==
  IF \E i \in 1..26 : UpperCase[i] = c
  THEN LowerCase[CHOOSE i \in 1..26 : UpperCase[i] = c]
  ELSE c

ToLowerCase(s) == [i \in 1..Len(s) |-> ToLowerChar(s[i])]

(***************************************************************************)
(* Regular expressions: a sequence of items, each a character class        *)
(* (any = "." : every character but a line break) with a quantifier        *)
(* "1", "*" or "+".  ci = the /i flag.                                     *)
(***************************************************************************)
Lit(c)   == [any |-> FALSE, cs |-> {c},        q |-> "1"]
Ws(q)    == [any |-> FALSE, cs |-> Whitespace, q |-> q]
AnyStar  == [any |-> TRUE,  cs |-> {},         q |-> "*"]

InClass(item, c, ci) ==
  IF item.any THEN c # "\n"
  ELSE IF ci THEN \E d \in item.cs : ToLowerChar(d) = ToLowerChar(c)
  ELSE c \in item.cs

RECURSIVE MatchFrom(_, _, _, _, _)
\* the items re[k..] match a prefix of s[i..]
MatchFrom(re, ci, k, s, i) ==
  IF k > Len(re) THEN TRUE
  ELSE LET here == i <= Len(s) /\ InClass(re[k], s[i], ci) IN
       CASE re[k].q = "1" -> here /\ MatchFrom(re, ci, k + 1, s, i + 1)
         [] re[k].q = "*" -> \/ MatchFrom(re, ci, k + 1, s, i)
                             \/ here /\ MatchFrom(re, ci, k, s, i + 1)
         [] re[k].q = "+" -> here /\ (\/ MatchFrom(re, ci, k + 1, s, i + 1)
                                      \/ MatchFrom(re, ci, k, s, i + 1))

\* regex.test(value): the pattern matches somewhere in the string
RegexTest(rx, s) == \E i \in 1..(Len(s) + 1) : MatchFrom(rx.re, rx.ci, 1, s, i)

(***************************************************************************)
(* checkDangerousCall                                                      *)
(***************************************************************************)
\* /;\s*rm\s+-rf/
RxRmRf ==
  [src |-> "/;\\s*rm\\s+-rf/", ci |-> FALSE,
   re |-> <<Lit(";"), Ws("*"), Lit("r"), Lit("m"), Ws("+"), Lit("-"), Lit("r"), Lit("f")>>]
\* /&&\s*curl.*\|.*sh/
RxCurlSh ==
  [src |-> "/&&\\s*curl.*\\|.*sh/", ci |-> FALSE,
   re |-> <<Lit("&"), Lit("&"), Ws("*"), Lit("c"), Lit("u"), Lit("r"), Lit("l"),
            AnyStar, Lit("|"), AnyStar, Lit("s"), Lit("h")>>]
\* /\.\.\//
RxDotDot ==
  [src |-> "/\\.\\.\\//", ci |-> FALSE, re |-> <<Lit("."), Lit("."), Lit("/")>>]
\* /;\s*DROP\s+TABLE/i
RxDropTable ==
  [src |-> "/;\\s*DROP\\s+TABLE/i", ci |-> TRUE,
   re |-> <<Lit(";"), Ws("*"), Lit("D"), Lit("R"), Lit("O"), Lit("P"), Ws("+"),
            Lit("T"), Lit("A"), Lit("B"), Lit("L"), Lit("E")>>]
\* /'\s*OR\s+'1'\s*=\s*'1/i
RxOr11 ==
  [src |-> "/'\\s*OR\\s+'1'\\s*=\\s*'1/i", ci |-> TRUE,
   re |-> <<Lit("'"), Ws("*"), Lit("O"), Lit("R"), Ws("+"), Lit("'"), Lit("1"), Lit("'"),
            Ws("*"), Lit("="), Ws("*"), Lit("'"), Lit("1")>>]

\* tool names and parameter names of the rule table
T_bash     == <<"b", "a", "s", "h">>
T_star     == <<"*">>
K_command  == <<"c", "o", "m", "m", "a", "n", "d">>
K_path     == <<"p", "a", "t", "h">>
K_file     == <<"f", "i", "l", "e">>
K_query    == <<"q", "u", "e", "r", "y">>

dangerousPatterns ==
  << [tool |-> T_bash, param |-> K_command, patterns |-> <<RxRmRf, RxCurlSh>>],
     [tool |-> T_star, param |-> K_path,    patterns |-> <<RxDotDot>>],
     [tool |-> T_star, param |-> K_file,    patterns |-> <<RxDotDot>>],
     [tool |-> T_star, param |-> K_query,   patterns |-> <<RxDropTable, RxOr11>>] >>

\* RuleHits without the tool-name filter
RuleHits_anyTool(rule, toolName, params) ==
  /\ Get(params, rule.param).t = "string"
  /\ \E j \in 1..Len(rule.patterns) : RegexTest(rule.patterns[j], Get(params, rule.param).s)

\* the rule applies to the tool and one of its patterns matches the string value
RuleHits(rule, toolName, params) ==
  /\ rule.tool = T_star \/ rule.tool = toolName
  /\ Get(params, rule.param).t = "string"
  /\ \E j \in 1..Len(rule.patterns) : RegexTest(rule.patterns[j], Get(params, rule.param).s)

DangerReason(param, rx) ==
  <<"Potentially dangerous pattern detected in ">> \o param \o <<": ", rx.src>>

checkDangerousCall(toolName, params) ==
  IF \E r \in 1..Len(dangerousPatterns) : RuleHits(dangerousPatterns[r], toolName, params)
  THEN LET r    == CHOOSE r \in 1..Len(dangerousPatterns) :
                     /\ RuleHits(dangerousPatterns[r], toolName, params)
                     /\ \A q \in 1..(r - 1) : ~RuleHits(dangerousPatterns[q], toolName, params)
           rule == dangerousPatterns[r]
           v    == Get(params, rule.param).s
           j    == CHOOSE j \in 1..Len(rule.patterns) :
                     /\ RegexTest(rule.patterns[j], v)
                     /\ \A q \in 1..(j - 1) : ~RegexTest(rule.patterns[q], v)
       IN [dangerous |-> TRUE, reason |-> DangerReason(rule.param, rule.patterns[j])]
  ELSE [dangerous |-> FALSE, reason |-> <<>>]

(***************************************************************************)
(* JSON.parse over the characters of a string: objects, arrays, strings    *)
(* without escapes, integers, true, false, null.  A parse result is        *)
(* [ok, v, i]: success, the value, the position after it.                  *)
(***************************************************************************)
Digits  == {"0", "1", "2", "3", "4", "5", "6", "7", "8", "9"}
Letters == {"a", "b", "c", "d", "e", "f", "g", "h", "i", "j", "k", "l", "m",
            "n", "o", "p", "q", "r", "s", "t", "u", "v", "w", "x", "y", "z",
            "A", "B", "C", "D", "E", "F", "G", "H", "I", "J", "K", "L", "M",
            "N", "O", "P", "Q", "R", "S", "T", "U", "V", "W", "X", "Y", "Z"}

DigitVal(c) ==
  CASE c = "0" -> 0 [] c = "1" -> 1 [] c = "2" -> 2 [] c = "3" -> 3 [] c = "4" -> 4
    [] c = "5" -> 5 [] c = "6" -> 6 [] c = "7" -> 7 [] c = "8" -> 8 [] c = "9" -> 9

DigitChar(d) ==
  CASE d = 0 -> "0" [] d = 1 -> "1" [] d = 2 -> "2" [] d = 3 -> "3" [] d = 4 -> "4"
    [] d = 5 -> "5" [] d = 6 -> "6" [] d = 7 -> "7" [] d = 8 -> "8" [] d = 9 -> "9"

ParseFail == [ok |-> FALSE, v |-> Undefined, i |-> 0]
ParseOk(v, i) == [ok |-> TRUE, v |-> v, i |-> i]

RECURSIVE SkipWs(_, _)
SkipWs(s, i) == IF i <= Len(s) /\ s[i] \in Whitespace THEN SkipWs(s, i + 1) ELSE i

\* the characters of lit stand at s[i..]
LitAt(s, i, lit) ==
  /\ i + Len(lit) - 1 <= Len(s)
  /\ \A k \in 1..Len(lit) : s[i + k - 1] = lit[k]

RECURSIVE ParseDigits(_, _, _)
\* the longest run of digits from i, as [n, i]
ParseDigits(s, i, acc) ==
  IF i <= Len(s) /\ s[i] \in Digits
  THEN ParseDigits(s, i + 1, acc * 10 + DigitVal(s[i]))
  ELSE [n |-> acc, i |-> i]

\* -? (0 | [1-9][0-9]*)
ParseNumber(s, i) ==
  LET neg == i <= Len(s) /\ s[i] = "-"
      j   == IF neg THEN i + 1 ELSE i
  IN IF ~(j <= Len(s) /\ s[j] \in Digits) THEN ParseFail
     ELSE IF s[j] = "0" THEN ParseOk(Num(0), j + 1)
     ELSE LET d == ParseDigits(s, j, 0)
          IN ParseOk(Num(IF neg THEN 0 - d.n ELSE d.n), d.i)

RECURSIVE ParseString(_, _, _)
\* after the opening quote: up to the closing quote, no control characters
ParseString(s, i, acc) ==
  IF i > Len(s) THEN ParseFail
  ELSE IF s[i] = "\"" THEN ParseOk(Str(acc), i + 1)
  ELSE IF s[i] \in {"\n", "\t"} THEN ParseFail
  ELSE ParseString(s, i + 1, Append(acc, s[i]))

RECURSIVE ParseValue(_, _)
RECURSIVE ParseElements(_, _, _)
RECURSIVE ParseMembers(_, _, _)

ParseValue(s, i0) ==
  LET i == SkipWs(s, i0) IN
  IF i > Len(s) THEN ParseFail
  ELSE CASE s[i] = "{" ->
              LET j == SkipWs(s, i + 1) IN
              IF j <= Len(s) /\ s[j] = "}" THEN ParseOk(Obj(<<>>), j + 1)
              ELSE ParseMembers(s, j, Obj(<<>>))
         [] s[i] = "[" ->
              LET j == SkipWs(s, i + 1) IN
              IF j <= Len(s) /\ s[j] = "]" THEN ParseOk(Arr(<<>>), j + 1)
              ELSE ParseElements(s, j, <<>>)
         [] s[i] = "\"" -> ParseString(s, i + 1, <<>>)
         [] s[i] = "-" \/ s[i] \in Digits -> ParseNumber(s, i)
         [] LitAt(s, i, <<"t", "r", "u", "e">>) -> ParseOk(Bool(TRUE), i + 4)
         [] LitAt(s, i, <<"f", "a", "l", "s", "e">>) -> ParseOk(Bool(FALSE), i + 5)
         [] LitAt(s, i, <<"n", "u", "l", "l">>) -> ParseOk(Null, i + 4)
         [] OTHER -> ParseFail

\* value (, value)* ]
ParseElements(s, i, acc) ==
  LET r == ParseValue(s, i) IN
  IF ~r.ok THEN ParseFail
  ELSE LET j == SkipWs(s, r.i) IN
       IF j > Len(s) THEN ParseFail
       ELSE IF s[j] = "]" THEN ParseOk(Arr(Append(acc, r.v)), j + 1)
       ELSE IF s[j] = "," THEN ParseElements(s, j + 1, Append(acc, r.v))
       ELSE ParseFail

\* "key" : value (, "key" : value)* }
ParseMembers(s, i0, acc) ==
  LET i == SkipWs(s, i0) IN
  IF ~(i <= Len(s) /\ s[i] = "\"") THEN ParseFail
  ELSE LET key == ParseString(s, i + 1, <<>>) IN
       IF ~key.ok THEN ParseFail
       ELSE LET c == SkipWs(s, key.i) IN
            IF ~(c <= Len(s) /\ s[c] = ":") THEN ParseFail
            ELSE LET r == ParseValue(s, c + 1) IN
                 IF ~r.ok THEN ParseFail
                 ELSE LET j == SkipWs(s, r.i) IN
                      IF j > Len(s) THEN ParseFail
                      ELSE IF s[j] = "}" THEN ParseOk(Put(acc, key.v.s, r.v), j + 1)
                      ELSE IF s[j] = "," THEN ParseMembers(s, j + 1, Put(acc, key.v.s, r.v))
                      ELSE ParseFail

\* the value r parsed from s is the whole text, but for trailing white space
WholeText(s, r) ==
  IF r.ok /\ SkipWs(s, r.i) = Len(s) + 1 THEN [ok |-> TRUE, v |-> r.v]
  ELSE [ok |-> FALSE, v |-> Undefined]

\* JSON.parse(text): [ok, v]; ok = FALSE is the SyntaxError
JSONParse(s) == WholeText(s, ParseValue(s, 1))

(***************************************************************************)
(* tryParseJson and its three fixups                                       *)
(***************************************************************************)
RECURSIVE IdentEnd(_, _)
\* the position after the longest run of [a-zA-Z0-9_] from i
IdentEnd(s, i) ==
  IF i <= Len(s) /\ s[i] \in (Letters \cup Digits \cup {"_"}) THEN IdentEnd(s, i + 1) ELSE i

RECURSIVE QuoteKeys(_, _)
\* fixed.replace(/(\{|\,)\s*([a-zA-Z_][a-zA-Z0-9_]*)\s*:/g, '$1"$2":')
QuoteKeys(s, i) ==
  IF i > Len(s) THEN <<>>
  ELSE LET a == SkipWs(s, i + 1)
           e == IdentEnd(s, a)
           c == SkipWs(s, e)
           hit == /\ s[i] \in {"{", ","}
                  /\ a <= Len(s) /\ s[a] \in (Letters \cup {"_"})
                  /\ c <= Len(s) /\ s[c] = ":"
       IN IF hit
          THEN <<s[i], "\"">> \o SubSeq(s, a, e - 1) \o <<"\"", ":">> \o QuoteKeys(s, c + 1)
          ELSE <<s[i]>> \o QuoteKeys(s, i + 1)

\* fixed.replace(/'/g, '"')
SingleToDouble(s) == [i \in 1..Len(s) |-> IF s[i] = "'" THEN "\"" ELSE s[i]]

RECURSIVE StripTrailingCommas(_, _)
\* fixed.replace(/,\s*([\}\]])/g, "$1")
StripTrailingCommas(s, i) ==
  IF i > Len(s) THEN <<>>
  ELSE LET a == SkipWs(s, i + 1)
           hit == s[i] = "," /\ a <= Len(s) /\ s[a] \in {"}", "]"}
       IN IF hit THEN <<s[a]>> \o StripTrailingCommas(s, a + 1)
          ELSE <<s[i]>> \o StripTrailingCommas(s, i + 1)

FixJson(s) == StripTrailingCommas(SingleToDouble(QuoteKeys(s, 1)), 1)

\* ParseOutcome that gives null for a string it cannot parse
ParseOutcome_nullOnFailure(value, strict, fixed) ==
  IF strict.ok THEN [parsed |-> strict.v, success |-> TRUE]
  ELSE IF fixed.ok THEN [parsed |-> fixed.v, success |-> TRUE]
  ELSE [parsed |-> Null, success |-> FALSE]

\* the try/catch ladder: strict is JSON.parse(value), fixed is JSON.parse(fixed)
ParseOutcome(value, strict, fixed) ==
  IF strict.ok THEN [parsed |-> strict.v, success |-> TRUE]
  ELSE IF fixed.ok THEN [parsed |-> fixed.v, success |-> TRUE]
  ELSE [parsed |-> value, success |-> FALSE]

tryParseJson(value) ==
  IF value.t # "string" THEN [parsed |-> value, success |-> TRUE]
  ELSE ParseOutcome(value, JSONParse(value.s), JSONParse(FixJson(value.s)))

(***************************************************************************)
(* Number(string) and String(value), on the characters the model's inputs  *)
(* use: white space, sign, decimal digits; every other string is NaN.      *)
(***************************************************************************)
RECURSIVE TrimEnd(_)
TrimEnd(s) == IF Len(s) > 0 /\ s[Len(s)] \in Whitespace THEN TrimEnd(SubSeq(s, 1, Len(s) - 1)) ELSE s

\* value.trim()
Trim(s) == TrimEnd(SubSeq(s, SkipWs(s, 1), Len(s)))

\* the trimmed text x as a number: the empty string is 0
TrimmedToNumber(x) ==
  LET j == IF Len(x) > 0 /\ x[1] \in {"-", "+"} THEN 2 ELSE 1
      d == ParseDigits(x, j, 0)
  IN IF Len(x) = 0 THEN [nan |-> FALSE, n |-> 0]
     ELSE IF j <= Len(x) /\ d.i = Len(x) + 1
          THEN [nan |-> FALSE, n |-> IF x[1] = "-" THEN 0 - d.n ELSE d.n]
     ELSE [nan |-> TRUE, n |-> 0]

\* Number(value) for a string: [nan, n]
StringToNumber(s) == TrimmedToNumber(Trim(s))

RECURSIVE NatToString(_)
NatToString(n) ==
  IF n < 10 THEN <<DigitChar(n)>> ELSE Append(NatToString(n \div 10), DigitChar(n % 10))

NumberToString(n) == IF n < 0 THEN <<"-">> \o NatToString(0 - n) ELSE NatToString(n)

RECURSIVE ToStringValue(_)
RECURSIVE JoinItems(_, _)
\* Array.prototype.join(","): null and undefined items print as nothing
JoinItems(items, i) ==
  IF i > Len(items) THEN <<>>
  ELSE (IF i > 1 THEN <<",">> ELSE <<>>)
       \o (IF items[i].t \in {"null", "undefined"} THEN <<>> ELSE ToStringValue(items[i]))
       \o JoinItems(items, i + 1)

\* String(value)
ToStringValue(v) ==
  CASE v.t = "string"    -> v.s
    [] v.t = "number"    -> NumberToString(v.n)
    [] v.t = "boolean"   -> IF v.b THEN <<"t", "r", "u", "e">> ELSE <<"f", "a", "l", "s", "e">>
    [] v.t = "null"      -> <<"n", "u", "l", "l">>
    [] v.t = "undefined" -> <<"u", "n", "d", "e", "f", "i", "n", "e", "d">>
    [] v.t = "array"     -> JoinItems(v.a, 1)
    [] v.t = "object"    -> <<"[object Object]">>

Includes(s, c) == \E i \in 1..Len(s) : s[i] = c

RECURSIVE SplitComma(_, _, _)
\* value.split(",").map((s) => s.trim()), as an array of strings
SplitComma(s, i, cur) ==
  IF i > Len(s) THEN <<Str(Trim(cur))>>
  ELSE IF s[i] = "," THEN <<Str(Trim(cur))>> \o SplitComma(s, i + 1, <<>>)
  ELSE SplitComma(s, i + 1, Append(cur, s[i]))

(***************************************************************************)
(* coerceValue                                                             *)
(***************************************************************************)
Ty_string  == "string"
Ty_number  == "number"
Ty_integer == "integer"
Ty_boolean == "boolean"
Ty_array   == "array"
Ty_object  == "object"

NotCoerced(value) == [value |-> value, coerced |-> FALSE]
Coerced(value)    == [value |-> value, coerced |-> TRUE]

\* num is Number(value)
CoerceNumber(value, num) ==
  IF value.t = "string" /\ ~num.nan THEN Coerced(Num(num.n)) ELSE NotCoerced(value)

CoerceBoolean(value) ==
  LET lower == ToLowerCase(value.s) IN
  IF value.t = "string" /\ lower \in {<<"t", "r", "u", "e">>, <<"1">>, <<"y", "e", "s">>}
  THEN Coerced(Bool(TRUE))
  ELSE IF value.t = "string" /\ lower \in {<<"f", "a", "l", "s", "e">>, <<"0">>, <<"n", "o">>}
  THEN Coerced(Bool(FALSE))
  ELSE IF value.t = "number" THEN Coerced(Bool(value.n # 0))
  ELSE NotCoerced(value)

\* r is tryParseJson(value)
ArrayFrom(value, r) ==
  IF r.success /\ r.parsed.t = "array" THEN Coerced(r.parsed)
  ELSE IF Includes(value.s, ",") THEN Coerced(Arr(SplitComma(value.s, 1, <<>>)))
  ELSE Coerced(Arr(<<value>>))

CoerceArray(value) ==
  IF value.t # "string" THEN NotCoerced(value) ELSE ArrayFrom(value, tryParseJson(value))

\* r is tryParseJson(value); typeof parsed === "object" holds of an array too
ObjectFrom(value, r) ==
  IF r.success /\ r.parsed.t \in {"object", "array"} THEN Coerced(r.parsed)
  ELSE NotCoerced(value)

CoerceObject(value) ==
  IF value.t # "string" THEN NotCoerced(value) ELSE ObjectFrom(value, tryParseJson(value))

coerceValue(value, expectedType) ==
  IF value.t \in {"undefined", "null"} THEN NotCoerced(value)
  ELSE CASE expectedType = Ty_string ->
              IF value.t # "string" THEN Coerced(Str(ToStringValue(value))) ELSE NotCoerced(value)
         [] expectedType \in {Ty_number, Ty_integer} -> CoerceNumber(value, StringToNumber(value.s))
         [] expectedType = Ty_boolean -> CoerceBoolean(value)
         [] expectedType = Ty_array   -> CoerceArray(value)
         [] expectedType = Ty_object  -> CoerceObject(value)
         [] OTHER -> NotCoerced(value)

(***************************************************************************)
(* Value.Check and Value.Errors of TypeBox, for an object schema           *)
(* Type.Object({k: Type.T(), k2: Type.Optional(Type.T2()), ...}):          *)
(* parameters = [properties |-> <<[k, type, req], ...>>].                  *)
(* type "" is a property schema without a type keyword (Type.Any()).       *)
(***************************************************************************)
PropSchema(k, type, req) == [k |-> k, type |-> type, req |-> req]

\* the value has the declared primitive type; the numbers of the model are
\* finite integers, so Type.Number() and Type.Integer() accept the same values
TypeOk(type, v) ==
  CASE type = "" -> TRUE
    [] type = Ty_string  -> v.t = "string"
    [] type = Ty_number  -> v.t = "number"
    [] type = Ty_integer -> v.t = "number"
    [] type = Ty_boolean -> v.t = "boolean"
    [] type = Ty_array   -> v.t = "array"
    [] type = Ty_object  -> v.t = "object"
    [] OTHER -> FALSE

\* the property of the value satisfies its schema
PropOk(p, value) ==
  IF p.req THEN HasKey(value, p.k) /\ TypeOk(p.type, Get(value, p.k))
  ELSE ~HasKey(value, p.k) \/ TypeOk(p.type, Get(value, p.k))

ValueCheck(parameters, value) ==
  /\ value.t = "object"
  /\ \A i \in 1..Len(parameters.properties) : PropOk(parameters.properties[i], value)

ErrText(path, message) == <<"/">> \o path \o <<": ", message>>

ExpectedMessage(type) ==
  CASE type = Ty_string  -> "Expected string"
    [] type = Ty_number  -> "Expected number"
    [] type = Ty_integer -> "Expected integer"
    [] type = Ty_boolean -> "Expected boolean"
    [] type = Ty_array   -> "Expected array"
    [] type = Ty_object  -> "Expected object"
    [] OTHER -> "Unknown type"

RECURSIVE RequiredErrors(_, _, _)
\* one "Required property" per required key the value lacks
RequiredErrors(props, value, i) ==
  IF i > Len(props) THEN <<>>
  ELSE (IF props[i].req /\ ~HasKey(value, props[i].k)
        THEN <<ErrText(props[i].k, "Required property")>> ELSE <<>>)
       \o RequiredErrors(props, value, i + 1)

RECURSIVE TypeErrors(_, _, _)
\* one "Expected <type>" per visited property of the wrong type
TypeErrors(props, value, i) ==
  IF i > Len(props) THEN <<>>
  ELSE (IF (props[i].req \/ HasKey(value, props[i].k)) /\ ~TypeOk(props[i].type, Get(value, props[i].k))
        THEN <<ErrText(props[i].k, ExpectedMessage(props[i].type))>> ELSE <<>>)
       \o TypeErrors(props, value, i + 1)

\* [...Value.Errors(parameters, value)] mapped to `${err.path}: ${err.message}`
ValueErrors(parameters, value) ==
  IF value.t # "object" THEN << <<": ", "Expected object">> >>
  ELSE RequiredErrors(parameters.properties, value, 1) \o TypeErrors(parameters.properties, value, 1)

(***************************************************************************)
(* levenshteinDistance and findClosestToolName                             *)
(***************************************************************************)
Min2(x, y) == IF x <= y THEN x ELSE y

RECURSIVE LevCells_noDeletion(_, _, _, _, _)
\* LevCells without the deletion term of the minimum
LevCells_noDeletion(a, b, i, prev, row) ==
  LET j == Len(row) IN
  IF j > Len(a) THEN row
  ELSE LevCells_noDeletion(a, b, i, prev,
         Append(row,
           IF b[i] = a[j]
           THEN prev[j]
           ELSE Min2(prev[j] + 1, row[j] + 1)))

RECURSIVE LevCells(_, _, _, _, _)
\* the cells matrix[i][j..] of row i, given row i-1 and the cells so far
LevCells(a, b, i, prev, row) ==
  LET j == Len(row) IN
  IF j > Len(a) THEN row
  ELSE LevCells(a, b, i, prev,
         Append(row,
           IF b[i] = a[j]
           THEN prev[j]
           ELSE Min2(prev[j] + 1, Min2(row[j] + 1, prev[j + 1] + 1))))

RECURSIVE LevRows(_, _, _, _)
\* rows i..b.length of the matrix; a row is matrix[i][0..a.length] at 1..a.length+1
LevRows(a, b, i, prev) ==
  IF i > Len(b) THEN prev
  ELSE LevRows(a, b, i + 1, LevCells(a, b, i, prev, <<i>>))

levenshteinDistance(a, b) ==
  LevRows(a, b, 1, [j \in 1..(Len(a) + 1) |-> j - 1])[Len(a) + 1]

InSeq(x, s) == \E i \in 1..Len(s) : s[i] = x

\* Closer that lets a later tool at the same distance replace the closest
Closer_lastWins(best, tool, d) ==
  IF best.inf \/ d <= best.minDistance
  THEN [closest |-> tool, minDistance |-> d, inf |-> FALSE]
  ELSE best

\* if (distance < minDistance) { minDistance = distance; closest = tool }
Closer(best, tool, d) ==
  IF best.inf \/ d < best.minDistance
  THEN [closest |-> tool, minDistance |-> d, inf |-> FALSE]
  ELSE best

RECURSIVE ClosestFrom(_, _, _, _)
\* the loop over the tools from index i: best = [closest, minDistance, inf]
ClosestFrom(inputLower, tools, i, best) ==
  IF i > Len(tools) THEN best
  ELSE ClosestFrom(inputLower, tools, i + 1,
                   Closer(best, tools[i], levenshteinDistance(inputLower, ToLowerCase(tools[i]))))

\* Ceil30 that rounds down
Ceil30_floor(n) == (3 * n) \div 10

\* Math.ceil(n * 0.3)
Ceil30(n) == (3 * n + 9) \div 10

\* SuggestIfClose that suggests the closest tool however far it is
SuggestIfClose_anyDistance(best) ==
  IF ~best.inf /\ Len(best.closest) > 0
  THEN [found |-> TRUE, match |-> best.closest, distance |-> best.minDistance, inf |-> FALSE]
  ELSE [found |-> FALSE, match |-> <<>>, distance |-> best.minDistance, inf |-> best.inf]

\* the return after the loop: best is the loop's [closest, minDistance, inf]
SuggestIfClose(best) ==
  IF ~best.inf /\ Len(best.closest) > 0 /\ best.minDistance <= Ceil30(Len(best.closest))
  THEN [found |-> TRUE, match |-> best.closest, distance |-> best.minDistance, inf |-> FALSE]
  ELSE [found |-> FALSE, match |-> <<>>, distance |-> best.minDistance, inf |-> best.inf]

\* the loop returns at the first tool equal to the input but for case
FirstSameLower(lower, tools) ==
  CHOOSE i \in 1..Len(tools) :
    /\ ToLowerCase(tools[i]) = lower
    /\ \A q \in 1..(i - 1) : ToLowerCase(tools[q]) # lower

\* result [found, match, distance, inf]: found = FALSE is match: null,
\* inf = TRUE is distance: Infinity
findClosestToolName(input, tools) ==
  IF InSeq(input, tools)
  THEN [found |-> TRUE, match |-> input, distance |-> 0, inf |-> FALSE]
  ELSE IF InSeq(ToLowerCase(input), [i \in 1..Len(tools) |-> ToLowerCase(tools[i])])
  THEN [found |-> TRUE, distance |-> 0, inf |-> FALSE,
        match |-> tools[FirstSameLower(ToLowerCase(input), tools)]]
  ELSE SuggestIfClose(ClosestFrom(ToLowerCase(input), tools, 1,
                                  [closest |-> <<>>, minDistance |-> 0, inf |-> TRUE]))

(***************************************************************************)
(* Plugin configuration.  An optional boolean is "undefined", "true" or    *)
(* "false"; repairStrategy is "undefined" or one of STRATEGIES.            *)
(***************************************************************************)
STRATEGIES == {"coerce", "default", "prompt", "block"}
OptBool    == {"undefined", "true", "false"}

Truthy(x)   == x = "true"
NotFalse(x) == x # "false"

MkCfg(enabled, strategy, bovf, bdc, fuzzy, maxDist, logErr, strict) ==
  [enabled |-> enabled, repairStrategy |-> strategy, blockOnValidationFailure |-> bovf,
   blockDangerousCalls |-> bdc, allowToolNameFuzzyMatch |-> fuzzy,
   maxFuzzyMatchDistance |-> maxDist, logValidationErrors |-> logErr, strictMode |-> strict]

(***************************************************************************)
(* validateToolCall                                                        *)
(***************************************************************************)
\* an optional string and an optional argument object
NoText      == [present |-> FALSE, text |-> <<>>]
SomeText(x) == [present |-> TRUE, text |-> x]
NoArgs      == [present |-> FALSE, args |-> Undefined]
SomeArgs(x) == [present |-> TRUE, args |-> x]

\* the schema argument: absent, without parameters, or with parameters
NoSchema == [present |-> FALSE, hasParameters |-> FALSE, parameters |-> [properties |-> <<>>]]
SchemaOf(props) == [present |-> TRUE, hasParameters |-> TRUE, parameters |-> [properties |-> props]]

RECURSIVE Join(_, _)
\* errors.join(", ")
Join(errors, i) ==
  IF i > Len(errors) THEN <<>>
  ELSE (IF i > 1 THEN <<", ">> ELSE <<>>) \o errors[i] \o Join(errors, i + 1)

\* one turn of the loop: c is coerceValue(repaired[key], prop.type)
ApplyCoercion(acc, prop, c) ==
  IF prop.type # "" /\ Get(acc.repaired, prop.k).t # "undefined" /\ c.coerced
  THEN [repaired |-> Put(acc.repaired, prop.k, c.value), anyCoerced |-> TRUE]
  ELSE acc

RECURSIVE CoerceProperties(_, _, _)
\* the loop over Object.entries(properties): acc = [repaired, anyCoerced]
CoerceProperties(props, i, acc) ==
  IF i > Len(props) THEN acc
  ELSE CoerceProperties(props, i + 1,
         ApplyCoercion(acc, props[i], coerceValue(Get(acc.repaired, props[i].k), props[i].type)))

\* RepairOutcome that forgets to drop the working copy when the repair failed
RepairOutcome_keepCopy(parameters, errors, r) ==
  IF r.anyCoerced /\ ValueCheck(parameters, r.repaired)
  THEN [errors |-> <<>>, repaired |-> SomeArgs(r.repaired)]
  ELSE [errors |-> errors, repaired |-> SomeArgs(r.repaired)]

\* RepairOutcome that trusts the coercion without validating again
RepairOutcome_noRecheck(parameters, errors, r) ==
  IF r.anyCoerced
  THEN [errors |-> <<>>, repaired |-> SomeArgs(r.repaired)]
  ELSE [errors |-> errors, repaired |-> NoArgs]

\* RepairOutcome that reports the errors of the coerced copy when it gives up
RepairOutcome_errorsOfCopy(parameters, errors, r) ==
  IF r.anyCoerced /\ ValueCheck(parameters, r.repaired)
  THEN [errors |-> <<>>, repaired |-> SomeArgs(r.repaired)]
  ELSE [errors |-> ValueErrors(parameters, r.repaired), repaired |-> NoArgs]

\* "Check if repair was successful": r is the loop's [repaired, anyCoerced]
RepairOutcome(parameters, errors, r) ==
  IF r.anyCoerced /\ ValueCheck(parameters, r.repaired)
  THEN [errors |-> <<>>, repaired |-> SomeArgs(r.repaired)]
  ELSE [errors |-> errors, repaired |-> NoArgs]

\* the coercion branch: [errors, repaired]
RepairByCoercion(parameters, params, errors) ==
  RepairOutcome(parameters, errors,
    CoerceProperties(parameters.properties, 1, [repaired |-> params, anyCoerced |-> FALSE]))

\* Repairs that takes every strategy but "block" for a repairing one
Repairs_unlessBlock(cfg) == cfg.repairStrategy # "block"

\* cfg.repairStrategy === "coerce" || cfg.repairStrategy === undefined
Repairs(cfg) == cfg.repairStrategy \in {"coerce", "undefined"}

\* SchemaStep that reports a call for which no schema is known
SchemaStep_requireSchema(cfg, params, schema) ==
  IF ~(schema.present /\ schema.hasParameters)
  THEN [errors |-> <<<<"No schema for tool">>>>, repaired |-> NoArgs]
  ELSE IF ValueCheck(schema.parameters, params) THEN [errors |-> <<>>, repaired |-> NoArgs]
  ELSE IF Repairs(cfg)
       THEN RepairByCoercion(schema.parameters, params, ValueErrors(schema.parameters, params))
  ELSE [errors |-> ValueErrors(schema.parameters, params), repaired |-> NoArgs]

\* the schema branch: [errors, repaired]
SchemaStep(cfg, params, schema) ==
  IF ~(schema.present /\ schema.hasParameters) THEN [errors |-> <<>>, repaired |-> NoArgs]
  ELSE IF ValueCheck(schema.parameters, params) THEN [errors |-> <<>>, repaired |-> NoArgs]
  ELSE IF Repairs(cfg)
       THEN RepairByCoercion(schema.parameters, params, ValueErrors(schema.parameters, params))
  ELSE [errors |-> ValueErrors(schema.parameters, params), repaired |-> NoArgs]

\* the early return of a dangerous call
DangerResult(danger) ==
  [valid |-> FALSE,
   errors |-> <<IF Len(danger.reason) > 0 THEN danger.reason ELSE <<"Dangerous call detected">>>>,
   repaired |-> NoArgs,
   blocked |-> TRUE, blockReason |-> SomeText(danger.reason)]

\* BlockOnFailure that does not look at the errors
BlockOnFailure_always(cfg, errors) == Truthy(cfg.blockOnValidationFailure)

\* errors.length > 0 && cfg.blockOnValidationFailure
BlockOnFailure(cfg, errors) == Len(errors) > 0 /\ Truthy(cfg.blockOnValidationFailure)

\* FinalResult that reports valid whenever the call is not blocked
FinalResult_validUnlessBlocked(cfg, s) ==
  [valid |-> ~BlockOnFailure(cfg, s.errors), errors |-> s.errors, repaired |-> s.repaired,
   blocked |-> BlockOnFailure(cfg, s.errors),
   blockReason |-> IF BlockOnFailure(cfg, s.errors)
                   THEN SomeText(<<"Validation failed: ">> \o Join(s.errors, 1)) ELSE NoText]

\* the block on failure and the final return: s is the schema branch's [errors, repaired]
FinalResult(cfg, s) ==
  [valid |-> Len(s.errors) = 0, errors |-> s.errors, repaired |-> s.repaired,
   blocked |-> BlockOnFailure(cfg, s.errors),
   blockReason |-> IF BlockOnFailure(cfg, s.errors)
                   THEN SomeText(<<"Validation failed: ">> \o Join(s.errors, 1)) ELSE NoText]

\* Verdict that lets a successful repair pass before the danger check is looked at
Verdict_repairFirst(cfg, danger, s) ==
  IF NotFalse(cfg.blockDangerousCalls) /\ danger.dangerous /\ ~s.repaired.present
  THEN DangerResult(danger) ELSE FinalResult(cfg, s)

\* danger is checkDangerousCall's result, s the schema branch's, which runs
\* only when the danger check has not returned
Verdict(cfg, danger, s) ==
  IF NotFalse(cfg.blockDangerousCalls) /\ danger.dangerous
  THEN DangerResult(danger) ELSE FinalResult(cfg, s)

validateToolCall(cfg, toolName, params, schema) ==
  Verdict(cfg, checkDangerousCall(toolName, params), SchemaStep(cfg, params, schema))

(***************************************************************************)
(* The before_tool_call and after_tool_call handlers                       *)
(***************************************************************************)
ZeroStats == [validated |-> 0, repaired |-> 0, blocked |-> 0, errors |-> 0]

\* what the handler returns: { block, blockReason }, { params } or undefined
RetBlock(reason) == [kind |-> "block",     blockReason |-> reason, params |-> Undefined]
RetParams(args)  == [kind |-> "params",    blockReason |-> NoText, params |-> args]
RetUndefined     == [kind |-> "undefined", blockReason |-> NoText, params |-> Undefined]

\* cfg.maxFuzzyMatchDistance ?? 2
DefaultMaxFuzzyMatchDistance == 2
NoNumber      == [present |-> FALSE, n |-> 0]
SomeNumber(n) == [present |-> TRUE, n |-> n]

LogLine(level, msg) == [level |-> level, msg |-> msg]
\* the lines logged unless logValidationErrors is false
Logged(cfg, lines) == IF NotFalse(cfg.logValidationErrors) THEN lines ELSE <<>>

\* the suggestion is logged: m is findClosestToolName's result
Suggests(cfg, toolName, m) ==
  /\ m.found /\ Len(m.match) > 0 /\ m.match # toolName
  /\ m.distance <= (IF cfg.maxFuzzyMatchDistance.present
                    THEN cfg.maxFuzzyMatchDistance.n ELSE DefaultMaxFuzzyMatchDistance)
  /\ NotFalse(cfg.logValidationErrors)

\* the suggestion the handler logs, if any
FuzzyLog(cfg, toolName, tools) ==
  IF /\ NotFalse(cfg.allowToolNameFuzzyMatch) /\ Len(tools) > 0
     /\ Suggests(cfg, toolName, findClosestToolName(toolName, tools))
  THEN << LogLine("info", "fuzzy matched") >>
  ELSE <<>>

\* stats.validated++
IncValidated(stats) == [stats EXCEPT !.validated = @ + 1]

\* handleResult that blocks an unrepaired failure whatever strictMode says
handleResult_alwaysStrict(cfg, stats, result) ==
  IF result.blocked
  THEN [ret |-> RetBlock(result.blockReason), stats |-> [stats EXCEPT !.blocked = @ + 1],
        log |-> Logged(cfg, <<LogLine("warn", "blocked")>>)]
  ELSE IF ~result.valid
  THEN IF result.repaired.present
       THEN [ret |-> RetParams(result.repaired.args),
             stats |-> [stats EXCEPT !.errors = @ + 1, !.repaired = @ + 1],
             log |-> Logged(cfg, <<LogLine("warn", "validation errors"), LogLine("info", "repaired")>>)]
       ELSE [ret |-> RetBlock(SomeText(<<"Validation failed: ">> \o Join(result.errors, 1))),
             stats |-> [stats EXCEPT !.errors = @ + 1],
             log |-> Logged(cfg, <<LogLine("warn", "validation errors")>>)]
  ELSE [ret |-> RetUndefined, stats |-> stats, log |-> <<>>]

\* the handler after validateToolCall has returned result:
\* [ret, stats, log], ret what the handler returns
handleResult(cfg, stats, result) ==
  IF result.blocked
  THEN [ret |-> RetBlock(result.blockReason), stats |-> [stats EXCEPT !.blocked = @ + 1],
        log |-> Logged(cfg, <<LogLine("warn", "blocked")>>)]
  ELSE IF ~result.valid
  THEN IF result.repaired.present
       THEN [ret |-> RetParams(result.repaired.args),
             stats |-> [stats EXCEPT !.errors = @ + 1, !.repaired = @ + 1],
             log |-> Logged(cfg, <<LogLine("warn", "validation errors"), LogLine("info", "repaired")>>)]
       ELSE IF Truthy(cfg.strictMode)
       THEN [ret |-> RetBlock(SomeText(<<"Validation failed: ">> \o Join(result.errors, 1))),
             stats |-> [stats EXCEPT !.errors = @ + 1],
             log |-> Logged(cfg, <<LogLine("warn", "validation errors")>>)]
       ELSE [ret |-> RetUndefined, stats |-> [stats EXCEPT !.errors = @ + 1],
             log |-> Logged(cfg, <<LogLine("warn", "validation errors")>>)]
  ELSE [ret |-> RetUndefined, stats |-> stats, log |-> <<>>]

\* the handler's result with the lines it logged before validating
WithLog(h, log) == [ret |-> h.ret, stats |-> h.stats, log |-> log \o h.log]

\* stats.validated++ placed where only an unblocked call reaches it
CountUnblocked(h) ==
  [h EXCEPT !.stats = IF h.ret.kind = "block" THEN h.stats ELSE IncValidated(h.stats)]

\* beforeToolCall that counts a call as validated only when it was not blocked
beforeToolCall_countUnblocked(cfg, stats, tools, event) ==
  WithLog(CountUnblocked(handleResult(cfg, stats,
                           validateToolCall(cfg, event.toolName, event.params, NoSchema))),
          FuzzyLog(cfg, event.toolName, tools))

\* beforeToolCall that blocks a call whose tool name it has a suggestion for
beforeToolCall_blockSuggested(cfg, stats, tools, event) ==
  IF FuzzyLog(cfg, event.toolName, tools) # <<>>
  THEN [ret |-> RetBlock(SomeText(<<"Unknown tool">>)), stats |-> IncValidated(stats),
        log |-> FuzzyLog(cfg, event.toolName, tools)]
  ELSE WithLog(handleResult(cfg, IncValidated(stats),
                            validateToolCall(cfg, event.toolName, event.params, NoSchema)),
               FuzzyLog(cfg, event.toolName, tools))

\* beforeToolCall that validates against a schema {count: number} of the tool
beforeToolCall_withSchema(cfg, stats, tools, event) ==
  WithLog(handleResult(cfg, IncValidated(stats),
                       validateToolCall(cfg, event.toolName, event.params,
                                        SchemaOf(<<PropSchema(<<"c", "o", "u", "n", "t">>,
                                                              Ty_number, FALSE)>>))),
          FuzzyLog(cfg, event.toolName, tools))

\* the whole handler, which validates without a schema: [ret, stats, log]
beforeToolCall(cfg, stats, tools, event) ==
  WithLog(handleResult(cfg, IncValidated(stats),
                       validateToolCall(cfg, event.toolName, event.params, NoSchema)),
          FuzzyLog(cfg, event.toolName, tools))

\* afterToolCall that keeps only the name of the last completed call
afterToolCall_evict(tools, toolName) == <<toolName>>

\* availableTools.add(event.toolName): a Set keeps insertion order
afterToolCall(tools, toolName) == IF InSeq(toolName, tools) THEN tools ELSE Append(tools, toolName)

(***************************************************************************)
(* Inputs                                                                  *)
(***************************************************************************)
T_read    == <<"r", "e", "a", "d">>
T_bas     == <<"B", "a", "s">>
K_count   == <<"c", "o", "u", "n", "t">>
K_flag    == <<"f", "l", "a", "g">>
K_tags    == <<"t", "a", "g", "s">>
K_opts    == <<"o", "p", "t", "s">>

S_ls      == <<"l", "s">>
S_rmrf    == <<"l", "s", ";", " ", "r", "m", " ", "-", "r", "f", " ", "/">>
S_curl    == <<"a", "&", "&", "c", "u", "r", "l", " ", "u", "|", "s", "h">>
S_updir   == <<".", ".", "/", "e", "t", "c">>
S_abs     == <<"/", "h", "o", "m", "e">>
S_drop    == <<"x", ";", "d", "r", "o", "p", " ", "T", "A", "B", "L", "E", " ", "t">>
S_select  == <<"s", "e", "l", "e", "c", "t", " ", "1">>
S_five    == <<"5">>
S_neg     == <<" ", "-", "1", "2">>
S_x       == <<"x">>
S_yes     == <<"Y", "e", "s">>
S_maybe   == <<"m", "a", "y", "b", "e">>
S_list    == <<"a", ",", " ", "b">>
S_jsonarr == <<"[", "1", ",", "2", ",", "]">>
S_jsonobj == <<"{", "a", ":", " ", "'", "b", "'", "}">>

Obj1(k, v)           == Obj(<<Prop(k, v)>>)
Obj2(k1, v1, k2, v2) == Obj(<<Prop(k1, v1), Prop(k2, v2)>>)

\* argument objects: harmless, dangerous, schema-valid, repairable, unrepairable
ParamObjects ==
  { Obj(<<>>),
    Obj1(K_command, Str(S_ls)), Obj1(K_command, Str(S_rmrf)), Obj1(K_command, Str(S_curl)),
    Obj1(K_path, Str(S_abs)), Obj1(K_path, Str(S_updir)), Obj1(K_path, Num(7)),
    Obj1(K_file, Str(S_updir)), Obj1(K_query, Str(S_drop)), Obj1(K_query, Str(S_select)),
    Obj1(K_count, Num(5)), Obj1(K_count, Str(S_five)), Obj1(K_count, Str(S_neg)),
    Obj1(K_count, Str(S_x)), Obj1(K_count, Str(<<>>)), Obj1(K_count, Null),
    Obj2(K_count, Str(S_five), K_path, Str(S_updir)),
    Obj2(K_count, Str(S_five), K_path, Str(S_abs)),
    Obj2(K_count, Str(S_five), K_path, Num(7)),
    Obj2(K_count, Str(S_x), K_path, Num(7)),
    Obj2(K_count, Num(5), K_flag, Bool(TRUE)),
    Obj2(K_count, Str(S_five), K_flag, Str(S_yes)),
    Obj2(K_count, Str(S_five), K_flag, Str(S_maybe)),
    Obj2(K_count, Num(5), K_flag, Num(0)),
    Obj2(K_count, Str(S_five), K_command, Str(S_rmrf)),
    Obj1(K_tags, Str(S_list)), Obj1(K_tags, Str(S_jsonarr)), Obj1(K_tags, Str(S_x)),
    Obj1(K_opts, Str(S_jsonobj)), Obj1(K_opts, Str(S_x)), Obj1(K_opts, Str(S_jsonarr)) }

ToolNames == {T_bash, T_read}

\* declared parameter schemas
Schemas ==
  { NoSchema,
    [present |-> TRUE, hasParameters |-> FALSE, parameters |-> [properties |-> <<>>]],
    SchemaOf(<<PropSchema(K_count, Ty_number, TRUE)>>),
    SchemaOf(<<PropSchema(K_count, Ty_integer, FALSE), PropSchema(K_flag, Ty_boolean, TRUE)>>),
    SchemaOf(<<PropSchema(K_count, Ty_number, TRUE), PropSchema(K_path, Ty_string, TRUE)>>),
    SchemaOf(<<PropSchema(K_command, Ty_string, FALSE), PropSchema(K_count, Ty_string, FALSE)>>),
    SchemaOf(<<PropSchema(K_tags, Ty_array, TRUE)>>),
    SchemaOf(<<PropSchema(K_opts, Ty_object, TRUE), PropSchema(K_count, "", FALSE)>>) }

\* configurations of the validation function
ValidateConfigs ==
  { MkCfg("undefined", strategy, bovf, bdc, "undefined", NoNumber, "undefined", strict) :
      strategy \in STRATEGIES \cup {"undefined"},
      bovf \in {"undefined", "true"},
      bdc \in OptBool,
      strict \in {"undefined", "true"} }

\* configurations of the running plugin
PluginConfigs ==
  { MkCfg(enabled, "undefined", bovf, bdc, "undefined", NoNumber, "undefined", strict) :
      enabled \in {"undefined", "false"},
      bovf \in {"undefined", "true"},
      bdc \in {"undefined", "false"},
      strict \in {"undefined", "true"} }

\* the tool-call events the host issues
Events ==
  { [toolName |-> n, params |-> p] :
      n \in {T_bash, T_bas},
      p \in {Obj1(K_command, Str(S_ls)), Obj1(K_command, Str(S_rmrf)), Obj1(K_count, Str(S_x))} }

(***************************************************************************)
(* tool_validator_test.execute                                             *)
(***************************************************************************)
\* params[pattern.param] in checkDangerousCall: reading a property of null or
\* undefined throws a TypeError
PropertyReadThrows(params) == params.t \in {"null", "undefined"}

\* validateToolCall reads params unguarded only in the danger check
validateToolCallThrows(cfg, toolName, params) ==
  NotFalse(cfg.blockDangerousCalls) /\ PropertyReadThrows(params)

\* what execute gives back: a result with details.error, a result with the
\* verdict as details, or a rejected promise
InvalidJson == [kind |-> "result", error |-> "invalid_json"]
Details(result) == [kind |-> "result", error |-> "none", details |-> result]
Rejected == [kind |-> "rejected", error |-> "TypeError"]

\* the rest of execute, p = tryParseJson(paramsStr)
TestResult(cfg, toolName, p) ==
  IF ~p.success THEN InvalidJson
  ELSE IF validateToolCallThrows(cfg, toolName, p.parsed) THEN Rejected
  ELSE Details(validateToolCall(cfg, toolName, p.parsed, NoSchema))

testExecute(cfg, toolName, paramsStr) ==
  TestResult(cfg, toolName, tryParseJson(paramsStr))

\* params strings given to tool_validator_test
P_safe    == <<"{", "\"", "p", "a", "t", "h", "\"", ":", " ", "\"", "/", "a", "\"", "}">>
P_updir   == <<"{", "\"", "p", "a", "t", "h", "\"", ":", " ", "\"", ".", ".", "/", "a", "\"", "}">>
P_loose   == <<"{", "p", "a", "t", "h", ":", " ", "'", ".", ".", "/", "a", "'", ",", "}">>
P_null    == <<"n", "u", "l", "l">>
P_five    == <<"5">>
P_array   == <<"[", "1", "]">>
P_text    == <<"\"", "a", "\"">>
P_true    == <<"t", "r", "u", "e">>
P_notjson == <<"n", "o", "t", " ", "j", "s", "o", "n", " ", "{">>
P_open    == <<"{", "\"", "a", "\"", ":", " ">>
TestParams == {P_safe, P_updir, P_loose, P_null, P_five, P_array, P_text, P_true, P_notjson, P_open}

(***************************************************************************)
(* register(api): what the plugin registers with the host                  *)
(***************************************************************************)
NoRegistry == [hooks |-> {}, tools |-> {}, cli |-> {}, services |-> {}, log |-> <<>>]

\* everything register registers when the plugin is not disabled
FullRegistry ==
  [hooks |-> {"before_tool_call", "after_tool_call"},
   tools |-> {"tool_validator_stats", "tool_validator_test"},
   cli |-> {"tool-validator"}, services |-> {"tool-validator"}, log |-> <<>>]

\* register that returns early only after the hooks are in place
register_hooksFirst(cfg) ==
  IF cfg.enabled = "false"
  THEN [NoRegistry EXCEPT !.hooks = FullRegistry.hooks,
                          !.log = <<"tool-validator: disabled by config">>]
  ELSE FullRegistry

\* if (cfg.enabled === false) { api.logger.info(..); return; } ... registrations
register(cfg) ==
  IF cfg.enabled = "false"
  THEN [NoRegistry EXCEPT !.log = <<"tool-validator: disabled by config">>]
  ELSE FullRegistry

(***************************************************************************)
(* State                                                                   *)
(***************************************************************************)
VARIABLES
  phase,           \* "loaded", then "registered" or "disabled"
  registry,        \* the hooks, tools, CLI commands and services registered, and the log
  cfg,             \* api.pluginConfig
  availableTools,  \* the Set of observed tool names, in insertion order
  stats,           \* { validated, repaired, blocked, errors }
  calls,           \* the before_tool_call invocations of the host
  statsOut,        \* details of the last tool_validator_stats readout
  vin,             \* validateToolCall's arguments
  verdict,         \* its ValidationResult
  outcome,         \* what the handler makes of the result
  vpc,             \* "start", "validated", "done"; "off" outside SpecValidate
  steps,           \* the steps validateToolCall has executed (SpecSteps)
  arg,             \* the arguments of the function applied (SpecFunctions)
  res,             \* its result
  apc,             \* "call", "return"; "off" outside SpecFunctions
  store            \* the memory store or service of the other extensions (their specs)

fnVars == <<steps, arg, res, apc, store>>

vars == <<phase, registry, cfg, availableTools, stats, calls, statsOut, vin, verdict, outcome, vpc,
          steps, arg, res, apc, store>>

NoEvent   == [toolName |-> <<>>, params |-> Undefined]
IdleCall  == [st |-> "idle", event |-> NoEvent, ret |-> RetUndefined, log |-> <<>>]
NoVerdict == [valid |-> FALSE, errors |-> <<>>, repaired |-> NoArgs, blocked |-> FALSE,
              blockReason |-> NoText]
NoInput   == [toolName |-> <<>>, params |-> Undefined, schema |-> NoSchema]
NoArg     == [fn |-> "none"]
NoStore   == [kind |-> "none"]

(***************************************************************************)
(* Spec: the plugin as the host drives it                                  *)
(***************************************************************************)
Init ==
  /\ phase = "loaded"
  /\ registry = NoRegistry
  /\ cfg \in PluginConfigs
  /\ availableTools = <<>>
  /\ stats = ZeroStats
  /\ calls = [i \in 1..MaxCalls |-> IdleCall]
  /\ statsOut = ZeroStats
  /\ vin = NoInput
  /\ verdict = NoVerdict
  /\ outcome = RetUndefined
  /\ vpc = "off"
  /\ steps = <<>>
  /\ arg = NoArg
  /\ res = NoArg
  /\ apc = "off"
  /\ store = NoStore

\* register(api)
Register ==
  /\ phase = "loaded"
  /\ phase' = IF cfg.enabled = "false" THEN "disabled" ELSE "registered"
  /\ registry' = register(cfg)
  /\ UNCHANGED <<cfg, availableTools, stats, calls, statsOut, vin, verdict, outcome, vpc>>
  /\ UNCHANGED fnVars

\* the events the host issues while the plugin runs: a safe and a dangerous
\* command, for a known tool and for a misspelt one
HostEvents == {ev \in Events : HasKey(ev.params, K_command)}

\* the host issues a before_tool_call event; the handler has not run yet
Dispatch(i, ev) ==
  /\ "before_tool_call" \in registry.hooks
  /\ calls[i].st = "idle"
  /\ i > 1 => calls[i - 1].st # "idle"
  /\ calls' = [calls EXCEPT ![i] = [IdleCall EXCEPT !.st = "pending", !.event = ev]]
  /\ UNCHANGED <<phase, registry, cfg, availableTools, stats, statsOut, vin, verdict, outcome, vpc>>
  /\ UNCHANGED fnVars

\* invocation i has returned r = [ret, stats, log]
Returned(i, r) ==
  /\ stats' = r.stats
  /\ calls' = [calls EXCEPT ![i] = [@ EXCEPT !.st = "returned", !.ret = r.ret, !.log = r.log]]

\* the handler runs for invocation i: it has no await, so it runs to its return
BeforeToolCall(i) ==
  /\ calls[i].st = "pending"
  /\ Returned(i, beforeToolCall(cfg, stats, availableTools, calls[i].event))
  /\ UNCHANGED <<phase, registry, cfg, availableTools, statsOut, vin, verdict, outcome, vpc>>
  /\ UNCHANGED fnVars

\* the call was not blocked and has completed: the after_tool_call handler runs
AfterToolCall(i) ==
  /\ "after_tool_call" \in registry.hooks
  /\ calls[i].st = "returned"
  /\ calls[i].ret.kind # "block"
  /\ availableTools' = afterToolCall(availableTools, calls[i].event.toolName)
  /\ calls' = [calls EXCEPT ![i].st = "done"]
  /\ UNCHANGED <<phase, registry, cfg, stats, statsOut, vin, verdict, outcome, vpc>>
  /\ UNCHANGED fnVars

\* tool_validator_stats.execute: details = { ...stats }
StatsExecute ==
  /\ "tool_validator_stats" \in registry.tools
  /\ statsOut' = stats
  /\ UNCHANGED <<phase, registry, cfg, availableTools, stats, calls, vin, verdict, outcome, vpc>>
  /\ UNCHANGED fnVars

\* tool_validator_test.execute, called while the plugin runs
TestToolCall(toolName, paramsStr) ==
  /\ "tool_validator_test" \in registry.tools
  /\ res' = testExecute(cfg, toolName, Str(paramsStr))
  /\ UNCHANGED <<phase, registry, cfg, availableTools, stats, calls, statsOut, vin, verdict, outcome,
                 vpc, steps, arg, apc, store>>

Next ==
  \/ Register
  \/ \E i \in 1..MaxCalls, ev \in HostEvents : Dispatch(i, ev)
  \/ \E i \in 1..MaxCalls : BeforeToolCall(i)
  \/ \E i \in 1..MaxCalls : AfterToolCall(i)
  \/ StatsExecute
  \/ \E p \in {P_updir, P_notjson} : TestToolCall(T_read, p)

Spec == Init /\ [][Next]_vars

(***************************************************************************)
(* SpecValidate: validateToolCall applied to every input of the bounded    *)
(* sets, and the handler's treatment (handleResult) of the result.  The    *)
(* handler itself passes no schema; here the result is the one             *)
(* validateToolCall gives for a declared schema.                           *)
(***************************************************************************)
InitValidate ==
  /\ phase = "registered"
  /\ registry = FullRegistry
  /\ cfg \in ValidateConfigs
  /\ availableTools = <<>>
  /\ stats = ZeroStats
  /\ calls = [i \in 1..MaxCalls |-> IdleCall]
  /\ statsOut = ZeroStats
  /\ vin \in [toolName : ToolNames, params : ParamObjects, schema : Schemas]
  /\ verdict = NoVerdict
  /\ outcome = RetUndefined
  /\ vpc = "start"
  /\ steps = <<>>
  /\ arg = NoArg
  /\ res = NoArg
  /\ apc = "off"
  /\ store = NoStore

Validate ==
  /\ vpc = "start"
  /\ verdict' = validateToolCall(cfg, vin.toolName, vin.params, vin.schema)
  /\ vpc' = "validated"
  /\ UNCHANGED <<phase, registry, cfg, availableTools, stats, calls, statsOut, vin, outcome>>
  /\ UNCHANGED fnVars

\* the handler has dealt with the result: h = [ret, stats, log]
Handled(h) == outcome' = h.ret /\ stats' = h.stats

ApplyResult ==
  /\ vpc = "validated"
  /\ Handled(handleResult(cfg, IncValidated(stats), verdict))
  /\ vpc' = "done"
  /\ UNCHANGED <<phase, registry, cfg, availableTools, calls, statsOut, vin, verdict>>
  /\ UNCHANGED fnVars

NextValidate == Validate \/ ApplyResult

SpecValidate == InitValidate /\ [][NextValidate]_vars

(***************************************************************************)
(* Properties of validateToolCall and of the handler (SpecValidate)        *)
(***************************************************************************)
Validated == vpc \in {"validated", "done"}

\* the argument strings of ParamObjects that a danger pattern of the rule
\* table matches, for the tool the rule names
DangerousInput ==
  \/ vin.toolName = T_bash /\ Get(vin.params, K_command) \in {Str(S_rmrf), Str(S_curl)}
  \/ Get(vin.params, K_path) = Str(S_updir)
  \/ Get(vin.params, K_file) = Str(S_updir)
  \/ Get(vin.params, K_query) = Str(S_drop)

\* the danger check is enabled and flags the call
DangerHit == NotFalse(cfg.blockDangerousCalls) /\ DangerousInput

SchemaGiven   == vin.schema.present /\ vin.schema.hasParameters
SchemaValid   == SchemaGiven /\ ValueCheck(vin.schema.parameters, vin.params)
SchemaInvalid == SchemaGiven /\ ~ValueCheck(vin.schema.parameters, vin.params)

\* with the danger check disabled the same call comes back repaired
WouldRepair ==
  validateToolCall([cfg EXCEPT !.blockDangerousCalls = "false"],
                   vin.toolName, vin.params, vin.schema).repaired.present

\* C1: with dangerous-call blocking enabled, arguments that match a danger
\* pattern applicable to the tool give blocked = true, valid = false and no
\* repaired arguments, whatever the schema and the repair strategy.
C1_DangerousCallBlocked ==
  (Validated /\ DangerHit) =>
    (verdict.blocked /\ ~verdict.valid /\ ~verdict.repaired.present)

\* a dangerous call whose other arguments the coercion alone would have repaired
C1_Witness ==
  /\ Validated /\ DangerHit /\ SchemaInvalid /\ WouldRepair
  /\ verdict.blocked /\ ~verdict.repaired.present

\* C2: a verdict with blocked = true never carries repaired arguments, also
\* when the block comes from blockOnValidationFailure.
C2_BlockedHasNoRepair ==
  (Validated /\ verdict.blocked) => ~verdict.repaired.present

\* blocked by blockOnValidationFailure after a coercion that did not pass
C2_Witness ==
  /\ Validated /\ ~DangerHit /\ verdict.blocked /\ ~verdict.repaired.present
  /\ Truthy(cfg.blockOnValidationFailure)
  /\ CoerceProperties(vin.schema.parameters.properties, 1,
                      [repaired |-> vin.params, anyCoerced |-> FALSE]).anyCoerced

\* C3: valid = true exactly when errors is empty, on every path.
C3_ValidIffNoErrors ==
  Validated => (verdict.valid <=> Len(verdict.errors) = 0)

\* unrepaired errors that do not block: valid = false with errors kept
C3_Witness ==
  /\ Validated /\ SchemaInvalid /\ ~verdict.blocked /\ ~verdict.repaired.present
  /\ ~verdict.valid /\ Len(verdict.errors) > 0

\* C4: repaired arguments carried by a verdict pass validation against the
\* same schema.
C4_RepairedRevalidates ==
  (Validated /\ verdict.repaired.present) =>
    (SchemaGiven /\ ValueCheck(vin.schema.parameters, verdict.repaired.args))

\* a coercion changed a field and the result is returned
C4_Witness ==
  /\ Validated /\ verdict.repaired.present /\ verdict.repaired.args # vin.params

\* C5 as stated: schema-valid arguments give empty errors and blocked = false.
C5_SchemaValidPasses ==
  (Validated /\ SchemaValid) => (Len(verdict.errors) = 0 /\ ~verdict.blocked)

\* C5 amended: schema-valid arguments that the danger check does not flag
\* give empty errors and blocked = false.
C5_SchemaValidSafePasses ==
  (Validated /\ SchemaValid /\ ~DangerHit) =>
    (Len(verdict.errors) = 0 /\ ~verdict.blocked /\ verdict.valid)

\* schema-valid arguments with a danger pattern, the danger check disabled
C5_Witness ==
  /\ Validated /\ SchemaValid /\ DangerousInput /\ ~DangerHit
  /\ Len(verdict.errors) = 0 /\ ~verdict.blocked

\* C6: with strict mode on, a call that is not dangerous and whose schema
\* violation is not repaired gets a verdict with blocked = true and a
\* blockReason quoting the validation errors.
C6_StrictModeBlocksVerdict ==
  (Validated /\ Truthy(cfg.strictMode) /\ ~DangerHit /\ SchemaInvalid
     /\ ~verdict.repaired.present)
  => (/\ verdict.blocked
      /\ verdict.blockReason =
           SomeText(<<"Validation failed: ">>
                    \o Join(ValueErrors(vin.schema.parameters, vin.params), 1)))

\* what the before_tool_call handler returns for the same call
HandlerReturn ==
  beforeToolCall(cfg, ZeroStats, <<>>, [toolName |-> vin.toolName, params |-> vin.params]).ret

\* C7: not dangerous, schema-invalid, not repaired, strict mode and
\* blockOnValidationFailure off: the verdict is not blocked and carries no
\* repaired arguments, and the handler returns undefined, both for this
\* verdict and when it validates the call itself.
C7_UnrepairedPassesThrough ==
  (Validated /\ ~DangerHit /\ SchemaInvalid /\ ~verdict.valid
     /\ ~Truthy(cfg.strictMode) /\ ~Truthy(cfg.blockOnValidationFailure))
  => (/\ ~verdict.blocked
      /\ ~verdict.repaired.present
      /\ vpc = "done" => outcome = RetUndefined
      /\ HandlerReturn = RetUndefined)

\* the handler has passed such a call through and counted the failure
C7_Witness ==
  /\ vpc = "done" /\ ~DangerHit /\ SchemaInvalid /\ ~verdict.valid
  /\ ~Truthy(cfg.strictMode) /\ ~Truthy(cfg.blockOnValidationFailure)
  /\ outcome = RetUndefined /\ stats.errors = 1

NumericText(s) ==
  LET x == Trim(s)
      body == IF Len(x) > 0 /\ x[1] \in {"-", "+"} THEN SubSeq(x, 2, Len(x)) ELSE x
  IN Len(body) > 0 /\ \A i \in 1..Len(body) : body[i] \in Digits

CountValue == Get(vin.params, K_count)

\* the call has the one argument count, a string, for the schema {count: number}
CountIsText ==
  /\ Validated /\ ~DangerHit /\ cfg.repairStrategy \in {"coerce", "undefined"}
  /\ vin.schema = SchemaOf(<<PropSchema(K_count, Ty_number, TRUE)>>)
  /\ Len(vin.params.o) = 1 /\ CountValue.t = "string"

\* C19: under the coerce strategy a number or integer field that holds a
\* string is coerced to the number the string denotes when it is numeric and
\* is left unchanged and uncoerced when it is not; {count: "5"} for the schema
\* {count: number} gives valid = true with repaired arguments {count: 5}.
C19_NumericStringCoerced ==
  CountIsText =>
    /\ \A ty \in {Ty_number, Ty_integer} :
         coerceValue(CountValue, ty) =
           IF NumericText(CountValue.s)
           THEN Coerced(Num(StringToNumber(CountValue.s).n))
           ELSE NotCoerced(CountValue)
    /\ IF NumericText(CountValue.s)
       THEN /\ verdict.valid /\ verdict.repaired.present
            /\ verdict.repaired.args = Obj1(K_count, Num(StringToNumber(CountValue.s).n))
       ELSE ~verdict.valid /\ ~verdict.repaired.present
    /\ CountValue = Str(S_five) =>
         (verdict.valid /\ verdict.repaired = SomeArgs(Obj1(K_count, Num(5))))

\* C20: a call that matches no danger pattern and comes without a parameter
\* schema gets valid = true, blocked = false, no errors and no repaired
\* arguments.
C20_NoSchemaSafePasses ==
  (Validated /\ ~DangerousInput /\ ~SchemaGiven) =>
    verdict = [valid |-> TRUE, errors |-> <<>>, repaired |-> NoArgs, blocked |-> FALSE,
               blockReason |-> NoText]

\* bash {command: "ls"} without a schema, the danger check and
\* blockOnValidationFailure on
C20_Witness ==
  /\ Validated /\ ~vin.schema.present
  /\ vin.toolName = T_bash /\ vin.params = Obj1(K_command, Str(S_ls))
  /\ NotFalse(cfg.blockDangerousCalls) /\ Truthy(cfg.blockOnValidationFailure)
  /\ verdict.valid /\ ~verdict.blocked

\* the coercion loop's [repaired, anyCoerced] for the call
Coercion ==
  CoerceProperties(vin.schema.parameters.properties, 1,
                   [repaired |-> vin.params, anyCoerced |-> FALSE])

CoerceStrategy == cfg.repairStrategy \in {"coerce", "undefined"}

\* C23: when validation fails under the coerce strategy and no field was
\* coerced, or the coerced arguments fail validation again, the verdict has
\* no repaired arguments, valid = false and the errors of the first
\* validation.
C23_AbandonedRepairKeepsErrors ==
  (/\ Validated /\ ~DangerHit /\ SchemaInvalid /\ CoerceStrategy
   /\ (~Coercion.anyCoerced \/ ~ValueCheck(vin.schema.parameters, Coercion.repaired)))
  => (/\ ~verdict.repaired.present /\ ~verdict.valid
      /\ verdict.errors = ValueErrors(vin.schema.parameters, vin.params))

\* a field was coerced and the coerced arguments still fail, with fewer errors
C23_Witness ==
  /\ Validated /\ ~DangerHit /\ SchemaInvalid /\ CoerceStrategy
  /\ Coercion.anyCoerced /\ ~ValueCheck(vin.schema.parameters, Coercion.repaired)
  /\ ValueErrors(vin.schema.parameters, Coercion.repaired) # verdict.errors
  /\ ~verdict.repaired.present /\ ~verdict.valid

\* C25: with blockOnValidationFailure set, a call whose validation errors
\* remain after the repair attempt is returned blocked, with the blockReason
\* "Validation failed: " followed by the errors joined; a call that passed
\* validation or was repaired is not blocked.
C25_BlockOnRemainingErrors ==
  (Validated /\ ~DangerHit /\ Truthy(cfg.blockOnValidationFailure)) =>
    /\ (SchemaInvalid /\ ~verdict.repaired.present) =>
         /\ verdict.blocked /\ ~verdict.valid
         /\ verdict.errors = ValueErrors(vin.schema.parameters, vin.params)
         /\ verdict.blockReason =
              SomeText(<<"Validation failed: ">> \o Join(verdict.errors, 1))
    /\ (~SchemaInvalid \/ verdict.repaired.present) =>
         (~verdict.blocked /\ verdict.valid /\ verdict.blockReason = NoText)

\* two errors remain after a coercion that did not pass, and the call is blocked
C25_Witness ==
  /\ Validated /\ ~DangerHit /\ Truthy(cfg.blockOnValidationFailure)
  /\ SchemaInvalid /\ CoerceStrategy /\ Coercion.anyCoerced
  /\ Len(verdict.errors) = 2 /\ verdict.blocked

(***************************************************************************)
(* Properties of the running plugin (Spec)                                 *)
(***************************************************************************)
Completed == {i \in 1..MaxCalls : calls[i].st \in {"returned", "done"}}

\* C9: after N handler invocations have completed, validated = N, in
\* whatever order the issued invocations ran.
C9_ValidatedCountsEveryCall ==
  stats.validated = Cardinality(Completed)

\* two invocations were in flight together and the later one ran first
C9_Witness ==
  /\ calls[1].st = "pending" /\ calls[2].st = "returned"
  /\ calls[2].ret.kind = "block"
  /\ stats.validated = 1

TestArgs ==
  [fn : {"tool_validator_test"}, toolName : ToolNames, params : TestParams]

\* before_tool_call events, the tool names observed before them and the
\* plugin configs the handler reads
HandlerArgs == [fn : {"before_tool_call"}, event : Events]
ToolSets == {<<>>, <<T_bash>>, <<T_read>>, <<T_bash, T_read>>, <<T_read, T_bash>>}
Distances == {NoNumber, SomeNumber(0), SomeNumber(1), SomeNumber(5)}
HandlerConfigs ==
  { MkCfg("undefined", "undefined", bovf, bdc, fuzzy, maxDist, logErr, strict) :
      bovf \in {"undefined", "true"},
      bdc \in {"undefined", "false"},
      fuzzy \in OptBool,
      maxDist \in Distances,
      logErr \in {"undefined", "false"},
      strict \in {"undefined", "true"} }
DefaultConfig ==
  MkCfg("undefined", "undefined", "undefined", "undefined", "undefined", NoNumber,
        "undefined", "undefined")

\* strings over a two-letter alphabet, up to MaxStrLen characters
MaxStrLen == 3
Alphabet  == {"a", "b"}
Strings   == UNION {[1..k -> Alphabet] : k \in 0..MaxStrLen}

\* tool names and misspellings of them
N_chrom_search  == <<"c", "h", "r", "o", "m", "_", "s", "e", "a", "r", "c", "h">>
N_chroma_search == <<"c", "h", "r", "o", "m", "a", "_", "s", "e", "a", "r", "c", "h">>
N_chroma_store  == <<"c", "h", "r", "o", "m", "a", "_", "s", "t", "o", "r", "e">>
N_web_search    == <<"w", "e", "b", "_", "s", "e", "a", "r", "c", "h">>
N_web_sea       == <<"w", "e", "b", "_", "s", "e", "a">>
N_web_se        == <<"w", "e", "b", "_", "s", "e">>
N_Web_Search    == <<"W", "e", "b", "_", "S", "e", "a", "r", "c", "h">>

\* findClosestToolName(input, availableTools)
FuzzyArgs ==
  [fn : {"findClosestToolName"}, input : Strings,
   tools : {<<t>> : t \in Strings} \cup {<<t, u>> : t \in Strings, u \in {<<>>, <<"b">>, <<"a", "b", "a", "b">>, <<"B", "a">>}}]
  \cup
  [fn : {"findClosestToolName"},
   input : {N_chrom_search, N_web_sea, N_web_se, N_Web_Search, <<>>},
   tools : {<<>>, <<N_chroma_search, N_chroma_store>>, <<N_chroma_store, N_chroma_search>>,
            <<N_web_search>>, <<N_chroma_store, N_web_search>>}]

\* levenshteinDistance(a, b)
LevArgs ==
  [fn : {"levenshteinDistance"}, a : Strings, b : Strings]
  \cup [fn : {"levenshteinDistance"}, a : {N_chrom_search, N_web_se},
                                      b : {N_chroma_search, N_web_search, <<>>}]

\* tryParseJson(value): values that are not strings, and strings
JsonArgs ==
  [fn : {"tryParseJson"},
   value : {Undefined, Null, Num(5), Bool(TRUE), Arr(<<Num(1)>>), Obj1(K_path, Str(S_abs))}
           \cup {Str(s) : s \in TestParams \cup {S_jsonarr, S_jsonobj, S_list, <<>>}}]

FunctionArgs == TestArgs \cup HandlerArgs \cup FuzzyArgs \cup LevArgs \cup JsonArgs

InitFunctions ==
  /\ phase = "registered"
  /\ registry = FullRegistry
  /\ arg \in FunctionArgs
  /\ cfg \in CASE arg.fn = "tool_validator_test" -> ValidateConfigs
               [] arg.fn = "before_tool_call" -> HandlerConfigs
               [] OTHER -> {DefaultConfig}
  /\ availableTools \in IF arg.fn = "before_tool_call" THEN ToolSets ELSE {<<>>}
  /\ stats = ZeroStats
  /\ calls = [i \in 1..MaxCalls |-> IdleCall]
  /\ statsOut = ZeroStats
  /\ vin = NoInput
  /\ verdict = NoVerdict
  /\ outcome = RetUndefined
  /\ vpc = "off"
  /\ steps = <<>>
  /\ res = NoArg
  /\ apc = "call"
  /\ store = NoStore

\* the function has returned r
Return(r) ==
  /\ res' = r
  /\ apc' = "return"
  /\ UNCHANGED <<phase, registry, cfg, availableTools, stats, calls, statsOut, vin, verdict, outcome,
                 vpc, steps, arg, store>>

\* tool_validator_test.execute
TestExecute ==
  /\ apc = "call" /\ arg.fn = "tool_validator_test"
  /\ Return(testExecute(cfg, arg.toolName, Str(arg.params)))

\* the before_tool_call handler has returned h = [ret, stats, log]
HandlerReturned(h) ==
  /\ res' = [ret |-> h.ret, log |-> h.log]
  /\ stats' = h.stats
  /\ apc' = "return"
  /\ UNCHANGED <<phase, registry, cfg, availableTools, calls, statsOut, vin, verdict, outcome,
                 vpc, steps, arg, store>>

\* the before_tool_call handler, for one event
HandlerCall ==
  /\ apc = "call" /\ arg.fn = "before_tool_call"
  /\ HandlerReturned(beforeToolCall(cfg, stats, availableTools, arg.event))

FindClosestToolName ==
  /\ apc = "call" /\ arg.fn = "findClosestToolName"
  /\ Return(findClosestToolName(arg.input, arg.tools))

LevenshteinDistance ==
  /\ apc = "call" /\ arg.fn = "levenshteinDistance"
  /\ Return(levenshteinDistance(arg.a, arg.b))

TryParseJson ==
  /\ apc = "call" /\ arg.fn = "tryParseJson"
  /\ Return(tryParseJson(arg.value))

NextFunctions ==
  \/ TestExecute
  \/ HandlerCall
  \/ FindClosestToolName
  \/ LevenshteinDistance
  \/ TryParseJson

SpecFunctions == InitFunctions /\ [][NextFunctions]_vars

(***************************************************************************)
(* Properties of the functions (SpecFunctions)                             *)
(***************************************************************************)
Tested == apc = "return" /\ arg.fn = "tool_validator_test"

\* C12: tool_validator_test.execute returns a result for every params string,
\* also one that parses to JSON that is not an object: details.error =
\* "invalid_json" when the string does not parse even after the fixups, a
\* verdict otherwise.
C12_TestToolNeverThrows ==
  Tested =>
    /\ res.kind = "result"
    /\ res.error = "invalid_json" <=> ~tryParseJson(Str(arg.params)).success

(***************************************************************************)
(* SpecSteps: validateToolCall step by step.  steps records the checks in  *)
(* the order the invocation runs them; vpc is "START", "SCHEMA", "REPAIR"  *)
(* or the outcome the invocation has terminated in.                        *)
(***************************************************************************)
Outcomes == {"BLOCKED", "VALID", "REPAIRED", "PASS_WITH_ERRORS"}

InitSteps ==
  /\ phase = "registered"
  /\ registry = FullRegistry
  /\ cfg \in ValidateConfigs
  /\ availableTools = <<>>
  /\ stats = ZeroStats
  /\ calls = [i \in 1..MaxCalls |-> IdleCall]
  /\ statsOut = ZeroStats
  /\ vin \in [toolName : ToolNames, params : ParamObjects, schema : Schemas]
  /\ verdict = NoVerdict
  /\ outcome = RetUndefined
  /\ vpc = "START"
  /\ steps = <<>>
  /\ arg = NoArg
  /\ res = NoArg
  /\ apc = "off"
  /\ store = NoStore

StepVars == <<phase, registry, cfg, availableTools, stats, calls, statsOut, vin, outcome, arg, res, apc, store>>

\* the outcome a returned result stands for
OutcomeOf(result) ==
  IF result.blocked THEN "BLOCKED"
  ELSE IF result.repaired.present THEN "REPAIRED"
  ELSE IF result.valid THEN "VALID"
  ELSE "PASS_WITH_ERRORS"

\* validateToolCall returns result
Terminate(result) == verdict' = result /\ vpc' = OutcomeOf(result)

\* AfterDanger that goes on to the schema after a danger hit
AfterDanger_goOn(danger) ==
  /\ steps' = Append(steps, "DANGER_CHECK")
  /\ vpc' = "SCHEMA" /\ UNCHANGED verdict

\* the early return on danger.dangerous, else on to the schema
AfterDanger(danger) ==
  /\ steps' = Append(steps, "DANGER_CHECK")
  /\ IF danger.dangerous THEN Terminate(DangerResult(danger))
     ELSE vpc' = "SCHEMA" /\ UNCHANGED verdict

\* if (cfg.blockDangerousCalls !== false) { danger = checkDangerousCall(..) .. }
DangerCheck ==
  /\ vpc = "START"
  /\ IF NotFalse(cfg.blockDangerousCalls)
     THEN AfterDanger(checkDangerousCall(vin.toolName, vin.params))
     ELSE vpc' = "SCHEMA" /\ UNCHANGED <<verdict, steps>>
  /\ UNCHANGED StepVars

\* if (schema?.parameters) { valid = Value.Check(..); if (!valid) { errors .. } }
SchemaCheck ==
  /\ vpc = "SCHEMA"
  /\ IF ~(vin.schema.present /\ vin.schema.hasParameters)
     THEN /\ Terminate(FinalResult(cfg, [errors |-> <<>>, repaired |-> NoArgs]))
          /\ UNCHANGED steps
     ELSE /\ steps' = Append(steps, "SCHEMA_CHECK")
          /\ IF ValueCheck(vin.schema.parameters, vin.params)
             THEN Terminate(FinalResult(cfg, [errors |-> <<>>, repaired |-> NoArgs]))
             ELSE IF Repairs(cfg)
             THEN vpc' = "REPAIR" /\ UNCHANGED verdict
             ELSE Terminate(FinalResult(cfg,
                    [errors |-> ValueErrors(vin.schema.parameters, vin.params),
                     repaired |-> NoArgs]))
  /\ UNCHANGED StepVars

\* the coercion loop, the second Value.Check and the return
RepairAttempt ==
  /\ vpc = "REPAIR"
  /\ steps' = Append(steps, "REPAIR_ATTEMPT")
  /\ Terminate(FinalResult(cfg,
       RepairByCoercion(vin.schema.parameters, vin.params,
                        ValueErrors(vin.schema.parameters, vin.params))))
  /\ UNCHANGED StepVars

NextSteps == DangerCheck \/ SchemaCheck \/ RepairAttempt

SpecSteps == InitSteps /\ [][NextSteps]_vars

(***************************************************************************)
(* Properties of the steps of validateToolCall (SpecSteps)                 *)
(***************************************************************************)
Terminated == vpc \in Outcomes

StepRank(s) ==
  CASE s = "DANGER_CHECK" -> 1 [] s = "SCHEMA_CHECK" -> 2 [] s = "REPAIR_ATTEMPT" -> 3

\* the outcomes result belongs to
OutcomesOf(result) ==
  {o \in Outcomes :
     \/ o = "BLOCKED" /\ result.blocked
     \/ o = "VALID" /\ result.valid /\ ~result.repaired.present
     \/ o = "REPAIRED" /\ result.repaired.present
     \/ o = "PASS_WITH_ERRORS" /\ ~result.valid /\ ~result.blocked}

\* C13: an invocation of validateToolCall runs the danger check, the schema
\* check and the repair attempt in this order, each at most once, and returns
\* a result that is exactly one of BLOCKED, VALID, REPAIRED and
\* PASS_WITH_ERRORS; once the danger check has flagged the call, neither the
\* schema check nor the coercion runs.
C13_FixedOrderOneOutcome ==
  /\ \A i, j \in 1..Len(steps) : i < j => StepRank(steps[i]) < StepRank(steps[j])
  /\ Terminated =>
       /\ verdict = validateToolCall(cfg, vin.toolName, vin.params, vin.schema)
       /\ OutcomesOf(verdict) = {vpc}
  /\ DangerHit =>
       /\ \A i \in 1..Len(steps) : steps[i] = "DANGER_CHECK"
       /\ Terminated => (vpc = "BLOCKED" /\ steps = <<"DANGER_CHECK">>)

\* a call that went through all three steps and came back repaired
C13_Witness ==
  /\ vpc = "REPAIRED"
  /\ steps = <<"DANGER_CHECK", "SCHEMA_CHECK", "REPAIR_ATTEMPT">>

HandlerDone == apc = "return" /\ arg.fn = "before_tool_call"

\* what the handler returns for the same event with fuzzy matching off and no
\* tool name observed
PlainReturn ==
  beforeToolCall([cfg EXCEPT !.allowToolNameFuzzyMatch = "false",
                             !.maxFuzzyMatchDistance = NoNumber],
                 ZeroStats, <<>>, arg.event).ret

\* C14: what the handler returns for an event is the same for every set of
\* observed tool names and every allowToolNameFuzzyMatch and
\* maxFuzzyMatchDistance; the return carries no tool name: it is a block,
\* replacement params or nothing.
C14_FuzzyMatchAdvisory ==
  HandlerDone =>
    /\ res.ret = PlainReturn
    /\ res.ret.kind \in {"block", "params", "undefined"}
    /\ res.ret.kind = "undefined" => res.ret = RetUndefined

\* a misspelt tool name was matched to an observed one and logged, and the
\* call went through as issued
C14_Witness ==
  /\ HandlerDone
  /\ arg.event.toolName = T_bas /\ availableTools = <<T_read, T_bash>>
  /\ res.log = <<LogLine("info", "fuzzy matched")>>
  /\ res.ret = RetUndefined

FuzzyDone == apc = "return" /\ arg.fn = "findClosestToolName"

\* no tool of the pool equals the input, also when case is ignored
NoSameName ==
  \A i \in 1..Len(arg.tools) : ToLowerCase(arg.tools[i]) # ToLowerCase(arg.input)

\* the distance between the input and tool i, both in lowercase
DistanceTo(i) == levenshteinDistance(ToLowerCase(arg.input), ToLowerCase(arg.tools[i]))

MinDistance ==
  CHOOSE d \in {DistanceTo(i) : i \in 1..Len(arg.tools)} :
    \A i \in 1..Len(arg.tools) : d <= DistanceTo(i)

\* the first tool of the pool at the minimum distance
Nearest ==
  arg.tools[CHOOSE i \in 1..Len(arg.tools) :
              /\ DistanceTo(i) = MinDistance
              /\ \A q \in 1..(i - 1) : DistanceTo(q) # MinDistance]

\* C15: for an input that no tool of a non-empty pool equals, also ignoring
\* case, findClosestToolName returns the minimum distance over the pool; the
\* match is the first tool at that distance when the distance is at most 30%
\* of that tool's length rounded up, and null otherwise.  "chrom_search"
\* against chroma_search and chroma_store gives chroma_search at distance 1.
C15_ClosestWithinThreshold ==
  (FuzzyDone /\ NoSameName /\ Len(arg.tools) > 0) =>
    /\ ~res.inf /\ res.distance = MinDistance
    /\ IF MinDistance <= Ceil30(Len(Nearest))
       THEN res.found /\ res.match = Nearest
       ELSE ~res.found
    /\ (arg.input = N_chrom_search /\ InSeq(N_chroma_search, arg.tools))
         => (res.found /\ res.match = N_chroma_search /\ res.distance = 1)

\* the misspelt name against the two chroma tools
C15_Witness ==
  /\ FuzzyDone /\ arg.input = N_chrom_search
  /\ arg.tools = <<N_chroma_store, N_chroma_search>>
  /\ res.found /\ res.match = N_chroma_search /\ res.distance = 1

\* C16 as stated: findClosestToolName returns null whenever the distance of
\* the nearest tool exceeds 30% of that tool's length, so for a tool of length
\* 1 every distance of 1 or more gives null, and a tool of length 10 is
\* matched exactly when the distance is at most 3.
C16_NullBeyondThirtyPercent ==
  (FuzzyDone /\ NoSameName /\ Len(arg.tools) > 0) =>
    /\ 10 * MinDistance > 3 * Len(Nearest) => ~res.found
    /\ (Len(Nearest) = 1 /\ MinDistance >= 1) => ~res.found
    /\ Len(Nearest) = 10 => (res.found <=> MinDistance <= 3)

\* C16 amended: findClosestToolName returns null exactly when the distance of
\* the nearest tool exceeds 30% of that tool's length rounded up: a tool of
\* length 1 is matched at distance 1 and not beyond, a tool of length 10 is
\* matched exactly when the distance is at most 3.
C16_NullBeyondRoundedThreshold ==
  (FuzzyDone /\ NoSameName /\ Len(arg.tools) > 0) =>
    /\ ~res.found <=> 10 * MinDistance > 3 * Len(Nearest) + 9
    /\ Len(Nearest) = 1 => (res.found <=> MinDistance <= 1)
    /\ Len(Nearest) = 10 => (res.found <=> MinDistance <= 3)

\* web_search is four edits away from the input and is not suggested
C16_Witness ==
  /\ FuzzyDone /\ arg.input = N_web_se /\ arg.tools = <<N_web_search>>
  /\ Len(Nearest) = 10 /\ res.distance = 4 /\ ~res.found

LevDone == apc = "return" /\ arg.fn = "levenshteinDistance"

\* C17: levenshteinDistance(a, b) = levenshteinDistance(b, a) for all strings
\* a and b, and levenshteinDistance(a, a) = 0, also when a string is empty:
\* the distance to the empty string is the other string's length.
C17_LevenshteinSymmetric ==
  LevDone =>
    /\ res = levenshteinDistance(arg.b, arg.a)
    /\ arg.a = arg.b => res = 0
    /\ arg.a = <<>> => res = Len(arg.b)
    /\ arg.b = <<>> => res = Len(arg.a)

\* two strings of different lengths, one insertion apart
C17_Witness ==
  /\ LevDone /\ arg.a = N_chrom_search /\ arg.b = N_chroma_search
  /\ res = 1 /\ levenshteinDistance(arg.b, arg.a) = 1

JsonDone == apc = "return" /\ arg.fn = "tryParseJson"

\* JSON.parse of the string as given
StrictParse == JSONParse(arg.value.s)

\* JSON.parse of the string after the three fixups, in their order
FixedParse == JSONParse(StripTrailingCommas(SingleToDouble(QuoteKeys(arg.value.s, 1)), 1))

\* C18: tryParseJson returns for every input: a value that is not a string
\* comes back unchanged with success = true; a string that does not parse as
\* given nor after the three fixups (quote bare keys, single to double quotes,
\* strip trailing commas, one retry) comes back as the original string with
\* success = false.
C18_TryParseJsonNeverThrows ==
  JsonDone =>
    /\ res.success \in BOOLEAN
    /\ arg.value.t # "string" => res = [parsed |-> arg.value, success |-> TRUE]
    /\ arg.value.t = "string" =>
         /\ (~StrictParse.ok /\ ~FixedParse.ok) => res = [parsed |-> arg.value, success |-> FALSE]
         /\ (~StrictParse.ok /\ FixedParse.ok) => res = [parsed |-> FixedParse.v, success |-> TRUE]
         /\ StrictParse.ok => res = [parsed |-> StrictParse.v, success |-> TRUE]
    /\ ~res.success => res.parsed = arg.value
    /\ arg.value = Str(P_loose) => res.parsed = Obj1(K_path, Str(<<".", ".", "/", "a">>))

\* text that stays unparseable after the fixups comes back as it was
C18_Witness ==
  /\ JsonDone /\ arg.value = Str(P_notjson)
  /\ ~StrictParse.ok /\ ~FixedParse.ok
  /\ res = [parsed |-> Str(P_notjson), success |-> FALSE]

(***************************************************************************)
(* Properties of the running plugin, continued (Spec)                      *)
(***************************************************************************)
\* the step is the after_tool_call handler of a call that has completed
AfterToolCallStep ==
  \E i \in 1..MaxCalls :
    /\ calls[i].st = "returned" /\ calls'[i].st = "done"
    /\ availableTools' = afterToolCall(availableTools, calls[i].event.toolName)

\* C21: the set of known tool names starts empty, no step removes a name
\* from it, and only the after_tool_call handler adds one: before_tool_call,
\* tool_validator_stats and tool_validator_test leave the set as it is.
C21_ToolSetAppendOnly ==
  /\ availableTools = <<>>
  /\ [][/\ \A i \in 1..Len(availableTools) : InSeq(availableTools[i], availableTools')
        /\ availableTools' # availableTools => AfterToolCallStep]_vars

\* two names are known after two calls, and both entry points have been used
C21_Witness ==
  /\ Len(availableTools) = 2
  /\ statsOut.validated = 2 /\ res # NoArg

\* C22: with enabled = false, register logs "disabled by config" and
\* registers no hook, no tool, no CLI command and no service, so that no call
\* is ever validated, repaired or blocked and no entry point ever answers.
C22_DisabledRegistersNothing ==
  (phase # "loaded" /\ cfg.enabled = "false") =>
    /\ registry = [hooks |-> {}, tools |-> {}, cli |-> {}, services |-> {},
                   log |-> <<"tool-validator: disabled by config">>]
    /\ \A i \in 1..MaxCalls : calls[i].st = "idle"
    /\ stats = ZeroStats /\ statsOut = ZeroStats /\ res = NoArg
    /\ availableTools = <<>>

\* register has run for a disabled plugin
C22_Witness ==
  /\ phase = "disabled" /\ cfg.enabled = "false"
  /\ registry.log = <<"tool-validator: disabled by config">>
  /\ registry.hooks = {}

(***************************************************************************)
(* Properties of the steps of validateToolCall, continued (SpecSteps)      *)
(***************************************************************************)
RepairAttempted == \E i \in 1..Len(steps) : steps[i] = "REPAIR_ATTEMPT"

\* C24: with repairStrategy "default", "prompt" or "block", validateToolCall
\* never runs the coercion and never returns repaired arguments, and a call
\* that fails its schema keeps the errors of the validation; with "coerce" or
\* no strategy set, a call that fails its schema does get the coercion.
C24_OtherStrategiesFailClosed ==
  /\ cfg.repairStrategy \in {"default", "prompt", "block"} =>
       /\ ~RepairAttempted
       /\ Terminated =>
            /\ ~verdict.repaired.present
            /\ (SchemaInvalid /\ ~DangerHit) =>
                 /\ ~verdict.valid
                 /\ verdict.errors = ValueErrors(vin.schema.parameters, vin.params)
  /\ (CoerceStrategy /\ Terminated /\ SchemaInvalid /\ ~DangerHit) => RepairAttempted

\* {count: "5"} for {count: number} under "prompt": the coercion would have
\* repaired the call, and it is returned with its error
C24_Witness ==
  /\ Terminated /\ cfg.repairStrategy = "prompt" /\ ~DangerHit
  /\ vin.params = Obj1(K_count, Str(S_five))
  /\ vin.schema = SchemaOf(<<PropSchema(K_count, Ty_number, TRUE)>>)
  /\ steps = <<"DANGER_CHECK", "SCHEMA_CHECK">>
  /\ ~verdict.valid /\ ~verdict.repaired.present /\ Len(verdict.errors) = 1

(***************************************************************************)
(* Properties of the functions, continued (SpecFunctions)                  *)
(***************************************************************************)
\* the event's arguments match a danger pattern that applies to its tool
DangerousEvent ==
  arg.event.toolName = T_bash /\ Get(arg.event.params, K_command) = Str(S_rmrf)

\* C26: for every event and configuration the before_tool_call handler
\* returns either a block that a danger pattern caused or undefined: it
\* validates without a schema, so it returns no substituted params, blocks no
\* call for a schema violation and leaves the errors and repaired counters
\* as they were.
C26_HandlerBlocksOnlyDanger ==
  HandlerDone =>
    /\ IF NotFalse(cfg.blockDangerousCalls) /\ DangerousEvent
       THEN res.ret = RetBlock(SomeText(DangerReason(K_command, RxRmRf)))
       ELSE res.ret = RetUndefined
    /\ stats.errors = 0 /\ stats.repaired = 0
    /\ stats.validated = 1
    /\ stats.blocked = IF res.ret.kind = "block" THEN 1 ELSE 0

\* {count: "x"} goes through with strict mode and blockOnValidationFailure on
C26_Witness ==
  /\ HandlerDone /\ arg.event.params = Obj1(K_count, Str(S_x))
  /\ Truthy(cfg.strictMode) /\ Truthy(cfg.blockOnValidationFailure)
  /\ res.ret = RetUndefined /\ stats.errors = 0

\* tool i of the pool is within 30% of its own length, rounded up, of the input
WithinThreshold(i) == DistanceTo(i) <= Ceil30(Len(arg.tools[i]))

\* C27 as stated: findClosestToolName returns a match whenever some tool of
\* the pool is within 30% of its own length, rounded up, of the input,
\* whatever the order of the pool and whatever tools are at the same distance.
C27_MatchWheneverSomeWithin ==
  (FuzzyDone /\ \E i \in 1..Len(arg.tools) : WithinThreshold(i)) => res.found

\* C27 amended: findClosestToolName returns a match exactly when a tool of the
\* pool equals the input but for case, or the first tool at the minimum
\* distance is within 30% of its own length, rounded up; a match it returns is
\* a tool of the pool that is within its threshold.
C27_MatchWhenNearestWithin ==
  (FuzzyDone /\ Len(arg.tools) > 0) =>
    /\ res.found <=> (~NoSameName \/ MinDistance <= Ceil30(Len(Nearest)))
    /\ res.found =>
         \E i \in 1..Len(arg.tools) : arg.tools[i] = res.match /\ WithinThreshold(i)

\* "ba" and "abab" are both two edits from "ab"; "ba" comes first and is too
\* short for two edits, so nothing is suggested although "abab" is in reach
C27_Witness ==
  /\ FuzzyDone /\ arg.input = <<"a", "b">>
  /\ arg.tools = <<<<"b", "a">>, <<"a", "b", "a", "b">>>>
  /\ WithinThreshold(2) /\ ~WithinThreshold(1)
  /\ ~res.found /\ res.distance = 2

(***************************************************************************)
(* SpecChroma: a ChromaMemoryStore with callers of store, search, delete   *)
(* and count, each an async method that runs to its next await in one      *)
(* step of the event loop                                                  *)
(***************************************************************************)
MaxClients == 3
MaxDeletes == 1
Clients    == 1..MaxClients
\* the calls caller i makes: writers are the odd callers, readers the even ones
OpsOf(i)   == IF i % 2 = 1 THEN {"store", "delete"} ELSE {"search", "count"}

\* the tool-validator plugin is not part of these specifications
ValidatorIdle ==
  /\ phase = "loaded" /\ registry = NoRegistry /\ cfg = DefaultConfig
  /\ availableTools = <<>> /\ stats = ZeroStats
  /\ calls = [i \in 1..MaxCalls |-> IdleCall] /\ statsOut = ZeroStats
  /\ vin = NoInput /\ verdict = NoVerdict /\ outcome = RetUndefined /\ vpc = "off"
  /\ steps = <<>> /\ arg = NoArg /\ res = NoArg /\ apc = "off"

ValidatorVars ==
  <<phase, registry, cfg, availableTools, stats, calls, statsOut, vin, verdict, outcome,
    vpc, steps, arg, res, apc>>

IdleClient == [op |-> "none", pc |-> "idle", awaits |-> 0]

\* new ChromaMemoryStore(config, logger): collection = null, initPromise = null
\* (0); promises are the promises doInitialize has returned
InitChroma ==
  /\ ValidatorIdle
  /\ store = [kind |-> "chroma", collection |-> FALSE, initPromise |-> 0, promises |-> <<>>,
              getOrCreateCalls |-> 0, deleteCalls |-> 0, deleting |-> FALSE,
              clients |-> [i \in Clients |-> IdleClient]]

\* ensureInitialized that looks at the collection only
ensureInitialized_collectionOnly(s, i, op) ==
  IF s.collection
  THEN [s EXCEPT !.clients[i] = [op |-> op, pc |-> "ready", awaits |-> 0]]
  ELSE [s EXCEPT !.promises = Append(@, "pending"),
                 !.initPromise = Len(s.promises) + 1,
                 !.getOrCreateCalls = @ + 1,
                 !.clients[i] = [op |-> op, pc |-> "awaitInit", awaits |-> Len(s.promises) + 1]]

\* await this.ensureInitialized() of caller i, up to the await: doInitialize
\* runs to its await of client.getOrCreateCollection and returns its promise
ensureInitialized(s, i, op) ==
  IF s.collection
  THEN [s EXCEPT !.clients[i] = [op |-> op, pc |-> "ready", awaits |-> 0]]
  ELSE IF s.initPromise # 0
  THEN [s EXCEPT !.clients[i] = [op |-> op, pc |-> "awaitInit", awaits |-> s.initPromise]]
  ELSE [s EXCEPT !.promises = Append(@, "pending"),
                 !.initPromise = Len(s.promises) + 1,
                 !.getOrCreateCalls = @ + 1,
                 !.clients[i] = [op |-> op, pc |-> "awaitInit", awaits |-> Len(s.promises) + 1]]

\* store, search, delete or count is called
ChromaCall(i, op) ==
  /\ store.clients[i].pc = "idle"
  /\ store' = ensureInitialized(store, i, op)
  /\ UNCHANGED ValidatorVars

\* getOrCreateCollection answers: doInitialize sets the collection and returns
GetOrCreateResolves(k) ==
  /\ store.promises[k] = "pending"
  /\ store' = [store EXCEPT !.promises[k] = "fulfilled", !.collection = TRUE]
  /\ UNCHANGED ValidatorVars

\* getOrCreateCollection fails: doInitialize rejects, initPromise keeps the promise
GetOrCreateRejects(k) ==
  /\ store.promises[k] = "pending"
  /\ store' = [store EXCEPT !.promises[k] = "rejected"]
  /\ UNCHANGED ValidatorVars

\* caller i resumes after await this.ensureInitialized()
ChromaResume(i) ==
  /\ store.clients[i].pc = "awaitInit"
  /\ store.promises[store.clients[i].awaits] # "pending"
  /\ store' = [store EXCEPT !.clients[i].pc =
                 IF store.promises[store.clients[i].awaits] = "fulfilled"
                 THEN "ready" ELSE "failed"]
  /\ UNCHANGED ValidatorVars

\* this.collection!.add / query / delete / count; delete catches what the
\* call throws and returns false
CollectionOp(i) ==
  /\ store.clients[i].pc = "ready"
  /\ store' = [store EXCEPT !.clients[i].pc =
                 IF store.collection \/ store.clients[i].op = "delete" THEN "done" ELSE "failed"]
  /\ UNCHANGED ValidatorVars

\* deleteCollection up to its await of client.deleteCollection
DeleteCollectionCall ==
  /\ ~store.deleting /\ store.deleteCalls < MaxDeletes
  /\ store' = [store EXCEPT !.deleting = TRUE, !.deleteCalls = @ + 1]
  /\ UNCHANGED ValidatorVars

\* deleteCollection after the await: collection = null, initPromise = null
DeleteCollectionReturns ==
  /\ store.deleting
  /\ store' = [store EXCEPT !.deleting = FALSE, !.collection = FALSE, !.initPromise = 0]
  /\ UNCHANGED ValidatorVars

NextChroma ==
  \/ \E i \in Clients : \E op \in OpsOf(i) : ChromaCall(i, op)
  \/ \E k \in 1..(MaxDeletes + MaxClients) : k <= Len(store.promises) /\ GetOrCreateResolves(k)
  \/ \E k \in 1..(MaxDeletes + MaxClients) : k <= Len(store.promises) /\ GetOrCreateRejects(k)
  \/ \E i \in Clients : ChromaResume(i)
  \/ \E i \in Clients : CollectionOp(i)
  \/ DeleteCollectionCall
  \/ DeleteCollectionReturns

SpecChroma == InitChroma /\ [][NextChroma]_vars

\* C28: as long as deleteCollection has not been called, getOrCreateCollection
\* is invoked at most once however store, search, delete and count calls
\* interleave: every caller that arrives before the initialization is over
\* awaits the one promise in flight.
C28_InitializedOnce ==
  store.deleteCalls = 0 =>
    /\ store.getOrCreateCalls <= 1
    /\ \A i \in Clients : store.clients[i].pc = "awaitInit" => store.clients[i].awaits = 1
    /\ (\E i \in Clients : store.clients[i].pc # "idle") => store.getOrCreateCalls = 1

\* three different calls arrived while the one initialization is in flight
C28_Witness ==
  /\ store.deleteCalls = 0 /\ store.getOrCreateCalls = 1
  /\ store.promises = <<"pending">>
  /\ \A i \in Clients : store.clients[i].pc = "awaitInit"
  /\ store.clients[1].op = "store" /\ store.clients[2].op = "search"
  /\ store.clients[3].op = "delete"


(***************************************************************************)
(* SpecQdrant: a QdrantMemoryStore and the Qdrant server it talks to, with *)
(* callers of store, search, delete and count                              *)
(***************************************************************************)
IdleCaller == [op |-> "none", pc |-> "idle", cause |-> "none"]

\* new QdrantMemoryStore(config, logger): initialized = false; the server may
\* or may not have the collection already
InitQdrant ==
  /\ ValidatorIdle
  /\ \E has \in BOOLEAN :
       store = [kind |-> "qdrant", initialized |-> FALSE, serverHas |-> has,
                startedEmpty |-> ~has, createCalls |-> 0,
                clients |-> [i \in Clients |-> IdleCaller]]

\* ensureCollection up to its first await: returns when initialized, else
\* sends getCollections
ensureCollection(s, i, op) ==
  [s EXCEPT !.clients[i] = [op |-> op, cause |-> "none",
                            pc |-> IF s.initialized THEN "ready" ELSE "listing"]]

\* ensureCollection after getCollections answered with the collection
\* listed (exists) or not: creates the collection when it is not listed
afterGetCollections(s, i, exists) ==
  IF exists
  THEN [s EXCEPT !.initialized = TRUE, !.clients[i].pc = "ready"]
  ELSE [s EXCEPT !.createCalls = @ + 1, !.clients[i].pc = "creating"]

\* store, search, delete or count is called
QdrantCall(i, op) ==
  /\ store.clients[i].pc = "idle"
  /\ store' = ensureCollection(store, i, op)
  /\ UNCHANGED ValidatorVars

\* the server answers getCollections of caller i
GetCollectionsAnswers(i) ==
  /\ store.clients[i].pc = "listing"
  /\ store' = afterGetCollections(store, i, store.serverHas)
  /\ UNCHANGED ValidatorVars

\* the server answers createCollection of caller i: it creates the
\* collection, or refuses because the collection exists (the catch block
\* rethrows "Failed to initialize Qdrant collection")
CreateCollectionAnswers(i) ==
  /\ store.clients[i].pc = "creating"
  /\ store' = IF store.serverHas
              THEN [store EXCEPT !.clients[i].pc = "failed", !.clients[i].cause = "exists"]
              ELSE [store EXCEPT !.serverHas = TRUE, !.initialized = TRUE,
                                 !.clients[i].pc = "ready"]
  /\ UNCHANGED ValidatorVars

\* a request of ensureCollection fails on the way: the catch block rethrows
RequestFails(i) ==
  /\ store.clients[i].pc \in {"listing", "creating"}
  /\ store' = [store EXCEPT !.clients[i].pc = "failed", !.clients[i].cause = "network"]
  /\ UNCHANGED ValidatorVars

\* client.upsert / search / delete / getCollection of caller i
QdrantOp(i) ==
  /\ store.clients[i].pc = "ready"
  /\ store' = [store EXCEPT !.clients[i].pc = "done"]
  /\ UNCHANGED ValidatorVars

NextQdrant ==
  \/ \E i \in Clients : \E op \in OpsOf(i) : QdrantCall(i, op)
  \/ \E i \in Clients : GetCollectionsAnswers(i)
  \/ \E i \in Clients : CreateCollectionAnswers(i)
  \/ \E i \in Clients : RequestFails(i)
  \/ \E i \in Clients : QdrantOp(i)

SpecQdrant == InitQdrant /\ [][NextQdrant]_vars

\* C29: when the collection does not exist at first, createCollection is
\* invoked at most once however store, search, delete and count calls
\* interleave, and no caller fails because another caller created the
\* collection first.
C29_CreatedOnceNoConflict ==
  store.startedEmpty =>
    /\ store.createCalls <= 1
    /\ \A i \in Clients : store.clients[i].cause # "exists"


(***************************************************************************)
(* SpecDiscovery: the background service of local-ai-discovery, started    *)
(* and stopped by the host, with its periodic timer                        *)
(***************************************************************************)
MaxStarts == 2
MaxTicks  == 2
DefaultDiscoveryIntervalMs == 30000
NoInterval == [present |-> FALSE, n |-> 0]
Interval(n) == [present |-> TRUE, n |-> n]

\* cfg.discoveryIntervalMs ?? 30000
intervalMs(c) == IF c.present THEN c.n ELSE DefaultDiscoveryIntervalMs

\* register(api): discoveryInterval = null (0), lastDiscovery = []; timers are
\* the intervals setInterval has scheduled and clearInterval has not cleared
InitDiscovery ==
  /\ ValidatorIdle
  /\ \E c \in {NoInterval, Interval(0), Interval(1000)} :
       store = [kind |-> "discovery", discoveryIntervalMs |-> c, discoveryInterval |-> 0,
                lastDiscovery |-> "empty", timers |-> {}, starts |-> <<>>,
                stopped |-> FALSE, periodicRuns |-> 0, ranAfterStop |-> FALSE]

\* start() after its initial discovery, as invocation k: setInterval unless
\* the interval is 0 or less
startAfterDiscovery(s, k) ==
  IF intervalMs(s.discoveryIntervalMs) > 0
  THEN [s EXCEPT !.starts[k] = "done", !.lastDiscovery = "results",
                 !.timers = @ \cup {k}, !.discoveryInterval = k]
  ELSE [s EXCEPT !.starts[k] = "done", !.lastDiscovery = "results"]

\* stop(): clearInterval(discoveryInterval) when it is set
stop(s) ==
  IF s.discoveryInterval # 0
  THEN [s EXCEPT !.timers = @ \ {s.discoveryInterval}, !.discoveryInterval = 0,
                 !.stopped = TRUE]
  ELSE [s EXCEPT !.stopped = TRUE]

\* the host calls start(): it runs to await runDiscovery()
StartCall ==
  /\ Len(store.starts) < MaxStarts
  /\ store' = [store EXCEPT !.starts = Append(@, "awaiting"), !.stopped = FALSE]
  /\ UNCHANGED ValidatorVars

\* the initial discovery of start invocation k is over
InitialDiscoveryDone(k) ==
  /\ store.starts[k] = "awaiting"
  /\ store' = startAfterDiscovery(store, k)
  /\ UNCHANGED ValidatorVars

\* the host calls stop()
StopCall ==
  /\ store' = stop(store)
  /\ UNCHANGED ValidatorVars

\* interval t fires: the periodic runDiscovery
Tick(t) ==
  /\ t \in store.timers
  /\ store.periodicRuns < MaxTicks
  /\ store' = [store EXCEPT !.periodicRuns = @ + 1, !.lastDiscovery = "results",
                            !.ranAfterStop = @ \/ store.stopped]
  /\ UNCHANGED ValidatorVars

\* gateway_start: runDiscovery
GatewayStart ==
  /\ store' = [store EXCEPT !.lastDiscovery = "results"]
  /\ UNCHANGED ValidatorVars

NextDiscovery ==
  \/ StartCall
  \/ \E k \in 1..MaxStarts : k <= Len(store.starts) /\ InitialDiscoveryDone(k)
  \/ StopCall
  \/ \E t \in 1..MaxStarts : Tick(t)
  \/ GatewayStart

SpecDiscovery == InitDiscovery /\ [][NextDiscovery]_vars

\* C30: once stop() has run, and until start() is called again, no periodic
\* discovery timer is scheduled and no periodic runDiscovery occurs, however
\* start() and stop() interleave: stop() may run while start() still awaits
\* its initial discovery.
C30_StopLeavesNoTimer ==
  /\ store.stopped => store.timers = {}
  /\ ~store.ranAfterStop

====
